---- MODULE Spec2Model ----
(***************************************************************************)
(* Quantum atomic model viewer (src/main.js): electron configuration,      *)
(* orbital samplers, heatmap colour ramp, nucleus and bond composers.      *)
(*                                                                         *)
(* Conventions of the model                                                *)
(*  - A JavaScript string is a sequence of glyphs; the superscript glyph   *)
(*    of digit d is written "^d".                                          *)
(*  - Math.random() is a nondeterministic choice; every loop outcome the   *)
(*    draws can produce is a successor state.                              *)
(*  - Real numbers are exact rationals over a stated integer scale, except *)
(*    in the samplers, which compute in rounded binary floating point.     *)
(***************************************************************************)
EXTENDS Integers, Sequences, FiniteSets, TLC

VARIABLES
    \* getElectronConfiguration / configToString
    cZ, cConfig, cText, cPc,
    \* densityToHeatmap: the last two calls (argument and returned colour)
    hT, hColor, hPrevT, hPrevColor, hCalls,
    \* buildNucleus: arguments, state.glowEffects, locals, returned group
    nProtons, nNeutrons, nScheme, nGlowEffects, nParticles, nI, nGroup, nPc,
    \* buildBondCylinder: arguments and returned group
    bPosA, bPosB, bOrder, bType, bGroup, bPc,
    \* sampleRadius: arguments, locals, returned value
    rN, rL, rProbMax, rAttempt, rProbAt, rResult, rPc,
    \* sampleOrbitalPositions: arguments, locals, the samples pushed so far
    sN, sL, sMl, sCount, sI, sResults, sTaken, sOutcomes, sPc,
    \* buildBondCloud: arguments, state.cloudDensity, loop index, last point
    bcPosA, bcPosB, bcDen, bcOrder, bcDensity, bcI, bcPoint, bcPc,
    \* the scene: state, atomGroup and the module-level handles, the controls
    \* drawn by rebuildAtom, and a record of what the last callbacks did
    state, atomGroup, nucleusGroup, orbitalClouds, labelSprites,
    subshellButtons, energyDiagram, sceneGen, leaked, assigned, built,
    lastCall, repeat, touched, events,
    \* cloud buffers and the animation driver
    cbMode, cbState, cbClouds, cbBuilt, cbElapsed, cbFrameSpeed, cbFrames, cbPc,
    \* scan of the radial nodes
    ndN, ndL, ndI, ndSign, ndNodes, ndPc,
    \* the info tooltip of the click handler
    ttNow, ttTicks, ttHidden, ttTimers, ttShownAt, ttMissed, ttClicks, ttPc,
    \* The periodic-table page: the search input, the active category, the tiles
    pgValue, pgFocused, pgActive, pgLegend, pgDimmed, pgLast, pgEvents, pgPc

cfgVars == <<cZ, cConfig, cText, cPc>>
heatVars == <<hT, hColor, hPrevT, hPrevColor, hCalls>>

nucVars ==
    <<nProtons, nNeutrons, nScheme, nGlowEffects, nParticles, nI, nGroup, nPc>>

bondVars == <<bPosA, bPosB, bOrder, bType, bGroup, bPc>>

radVars == <<rN, rL, rProbMax, rAttempt, rProbAt, rResult, rPc>>

sampVars == <<sN, sL, sMl, sCount, sI, sResults, sTaken, sOutcomes, sPc>>

bondCloudVars == <<bcPosA, bcPosB, bcDen, bcOrder, bcDensity, bcI, bcPoint, bcPc>>

sceneVars ==
    <<state, atomGroup, nucleusGroup, orbitalClouds, labelSprites,
      subshellButtons, energyDiagram, sceneGen, leaked, assigned, built,
      lastCall, repeat, touched, events>>

frameVars ==
    <<cbMode, cbState, cbClouds, cbBuilt, cbElapsed, cbFrameSpeed,
      cbFrames, cbPc>>

nodeVars ==
    <<ndN, ndL, ndI, ndSign, ndNodes, ndPc>>

tipVars ==
    <<ttNow, ttTicks, ttHidden, ttTimers, ttShownAt, ttMissed, ttClicks,
      ttPc>>

pageVars ==
    <<pgValue, pgFocused, pgActive, pgLegend, pgDimmed, pgLast,
      pgEvents, pgPc>>

vars ==
    <<cfgVars, heatVars, nucVars, bondVars,
      radVars, sampVars, bondCloudVars, sceneVars, frameVars, nodeVars, tipVars, pageVars>>

----------------------------------------------------------------------------
(* Element catalogue and Aufbau table                                      *)

\* ELEMENT_LIST holds the atomic numbers 1..36 (last entry: Krypton).
MaxZ == 36

SUBSHELL_LABELS == <<"s", "p", "d", "f">>

\* String(d) for a single decimal digit d.
DigitGlyph(d) == <<"0", "1", "2", "3", "4", "5", "6", "7", "8", "9">>[d + 1]

\* The (n, l) pairs of AUFBAU_ORDER as written, before the .map().
AufbauPairs ==
    << <<1, 0>>, <<2, 0>>, <<2, 1>>, <<3, 0>>, <<3, 1>>, <<4, 0>>, <<3, 2>>,
       <<4, 1>>, <<5, 0>>, <<4, 2>>, <<5, 1>>, <<6, 0>>, <<4, 3>>, <<5, 2>>,
       <<6, 1>>, <<7, 0>>, <<5, 3>>, <<6, 2>>, <<7, 1>> >>

\* label: `${s.n}${SUBSHELL_LABELS[s.l]}` (n is a single digit in the table).
SubshellLabel(n, l) == <<DigitGlyph(n), SUBSHELL_LABELS[l + 1]>>

\* .map(s => ({...s, label, maxElectrons: 2 * (2 * s.l + 1)}))
AUFBAU_ORDER ==
    [i \in 1..Len(AufbauPairs) |->
        [n |-> AufbauPairs[i][1],
         l |-> AufbauPairs[i][2],
         label |-> SubshellLabel(AufbauPairs[i][1], AufbauPairs[i][2]),
         maxElectrons |-> 2 * (2 * AufbauPairs[i][2] + 1)]]

Min(a, b) == IF a < b THEN a ELSE b
Max(a, b) == IF a > b THEN a ELSE b

\* The for-of loop of getElectronConfiguration from table index idx on.
RECURSIVE ConfigLoop(_, _, _)
ConfigLoop(remaining, idx, config) ==
    IF idx > Len(AUFBAU_ORDER) THEN config
    ELSE IF remaining <= 0 THEN config
    ELSE LET sub == AUFBAU_ORDER[idx]
             e == Min(remaining, sub.maxElectrons)
         IN ConfigLoop(remaining - e, idx + 1,
                       Append(config,
                              [n |-> sub.n, l |-> sub.l, label |-> sub.label,
                               maxElectrons |-> sub.maxElectrons,
                               electrons |-> e]))

\* Mutant: the Math.min cap is dropped, the subshell takes all that remains.
RECURSIVE ConfigLoopNoCap(_, _, _)
ConfigLoopNoCap(remaining, idx, config) ==
    IF idx > Len(AUFBAU_ORDER) THEN config
    ELSE IF remaining <= 0 THEN config
    ELSE LET sub == AUFBAU_ORDER[idx]
             e == remaining
         IN ConfigLoopNoCap(remaining - e, idx + 1,
                       Append(config,
                              [n |-> sub.n, l |-> sub.l, label |-> sub.label,
                               maxElectrons |-> sub.maxElectrons,
                               electrons |-> e]))

getElectronConfigurationNoCap(Z) == ConfigLoopNoCap(Z, 1, <<>>)

\* Mutant: the `if (remaining <= 0) break` test is dropped.
RECURSIVE ConfigLoopNoBreak(_, _, _)
ConfigLoopNoBreak(remaining, idx, config) ==
    IF idx > Len(AUFBAU_ORDER) THEN config
    ELSE LET sub == AUFBAU_ORDER[idx]
             e == Min(remaining, sub.maxElectrons)
         IN ConfigLoopNoBreak(remaining - e, idx + 1,
                       Append(config,
                              [n |-> sub.n, l |-> sub.l, label |-> sub.label,
                               maxElectrons |-> sub.maxElectrons,
                               electrons |-> e]))

getElectronConfigurationNoBreak(Z) == ConfigLoopNoBreak(Z, 1, <<>>)

getElectronConfiguration(Z) == ConfigLoop(Z, 1, <<>>)

\* String(k).split(''): the decimal digits of k >= 0, most significant first.
RECURSIVE DecimalDigits(_)
DecimalDigits(k) ==
    IF k < 10 THEN <<k>> ELSE Append(DecimalDigits(k \div 10), k % 10)

\* superscripts[+d]
SuperscriptGlyph(d) ==
    <<"^0", "^1", "^2", "^3", "^4", "^5", "^6", "^7", "^8", "^9">>[d + 1]

\* String(sub.electrons).split('').map(d => superscripts[+d]).join('')
SuperscriptOf(k) ==
    LET ds == DecimalDigits(k)
    IN [i \in 1..Len(ds) |-> SuperscriptGlyph(ds[i])]

\* array.join(' ') of glyph sequences.
RECURSIVE JoinWithSpace(_)
JoinWithSpace(items) ==
    IF Len(items) = 0 THEN <<>>
    ELSE IF Len(items) = 1 THEN items[1]
    ELSE items[1] \o <<" ">> \o JoinWithSpace(Tail(items))

\* Mutant: superscripts[sub.electrons], one glyph looked up by the whole count
\* (undefined, rendered "undefined", for counts above 9).
configToStringOneGlyph(config) ==
    JoinWithSpace([i \in 1..Len(config) |->
        config[i].label \o
            <<IF config[i].electrons <= 9
              THEN SuperscriptGlyph(config[i].electrons) ELSE "undefined">>])

configToString(config) ==
    JoinWithSpace([i \in 1..Len(config) |->
        config[i].label \o SuperscriptOf(config[i].electrons)])

\* rebuildAtom: config = getElectronConfiguration(state.elementZ), and the
\* text written to #electron-config-text.
rebuildAtomConfigText(elementZ) ==
    configToString(getElectronConfiguration(elementZ))


----------------------------------------------------------------------------
(* Heatmap colour ramp                                                     *)
(* A density t is the rational k / TDen; a colour component c is the       *)
(* integer c * 100 * TDen, so every value of the ramp on the grid is exact.*)

\* Grid steps per ramp segment (a segment is 0.25 wide).
HeatSteps == 12

TDen == 4 * HeatSteps

\* The arguments tried: t from -0.25 to 1.25.
HeatInputs == (0 - HeatSteps)..(TDen + HeatSteps)

Colour(r, g, b) == [r |-> r, g |-> g, b |-> b]

\* Mutant: the clamp `t = Math.max(0, Math.min(1, t))` is missing.
densityToHeatmapNoClamp(k) ==
    LET t == k
        s1 == 4 * t
        s2 == 4 * t - TDen
        s3 == 4 * t - 2 * TDen
        s4 == 4 * t - 3 * TDen
    IN IF 4 * t < TDen THEN
           Colour(15 * TDen + s1 * 55, 0 * TDen + s1 * 0, 30 * TDen + s1 * 40)
       ELSE IF 4 * t < 2 * TDen THEN
           Colour(70 * TDen + s2 * 30, 0 * TDen + s2 * 45, 70 * TDen - s2 * 60)
       ELSE IF 4 * t < 3 * TDen THEN
           Colour(100 * TDen, 45 * TDen + s3 * 45, 10 * TDen - s3 * 5)
       ELSE
           Colour(100 * TDen, 90 * TDen + s4 * 10, 5 * TDen + s4 * 95)

\* Mutant: the orange -> yellow segment runs backwards (stops swapped).
densityToHeatmapReversedSegment(k) ==
    LET t == Max(0, Min(TDen, k))
        s1 == 4 * t
        s2 == 4 * t - TDen
        s3 == 4 * t - 2 * TDen
        s4 == 4 * t - 3 * TDen
    IN IF 4 * t < TDen THEN
           Colour(15 * TDen + s1 * 55, 0 * TDen + s1 * 0, 30 * TDen + s1 * 40)
       ELSE IF 4 * t < 2 * TDen THEN
           Colour(70 * TDen + s2 * 30, 0 * TDen + s2 * 45, 70 * TDen - s2 * 60)
       ELSE IF 4 * t < 3 * TDen THEN
           Colour(100 * TDen, 90 * TDen - s3 * 45, 5 * TDen + s3 * 5)
       ELSE
           Colour(100 * TDen, 90 * TDen + s4 * 10, 5 * TDen + s4 * 95)

\* densityToHeatmap(t) for t = k / TDen.  In segment i the code computes
\* s = (t - i * 0.25) / 0.25, here s_i = s * TDen, and each component
\* a + s * b becomes 100 * a * TDen + s_i * 100 * b.
densityToHeatmap(k) ==
    LET t == Max(0, Min(TDen, k))
        s1 == 4 * t
        s2 == 4 * t - TDen
        s3 == 4 * t - 2 * TDen
        s4 == 4 * t - 3 * TDen
    IN IF 4 * t < TDen THEN
           Colour(15 * TDen + s1 * 55, 0 * TDen + s1 * 0, 30 * TDen + s1 * 40)
       ELSE IF 4 * t < 2 * TDen THEN
           Colour(70 * TDen + s2 * 30, 0 * TDen + s2 * 45, 70 * TDen - s2 * 60)
       ELSE IF 4 * t < 3 * TDen THEN
           Colour(100 * TDen, 45 * TDen + s3 * 45, 10 * TDen - s3 * 5)
       ELSE
           Colour(100 * TDen, 90 * TDen + s4 * 10, 5 * TDen + s4 * 95)

HeatIdle ==
    /\ hT = 0
    /\ hColor = Colour(0, 0, 0)
    /\ hPrevT = 0
    /\ hPrevColor = Colour(0, 0, 0)
    /\ hCalls = 0

HeatInit == HeatIdle

\* One call densityToHeatmap(t); the call before it is remembered.
HeatCall ==
    \E k \in HeatInputs :
        /\ hPrevT' = hT
        /\ hPrevColor' = hColor
        /\ hT' = k
        /\ hColor' = densityToHeatmap(k)
        /\ hCalls' = Min(hCalls + 1, 2)


----------------------------------------------------------------------------
(* Nucleus composer                                                        *)
(* A nucleon position is kept in the spherical form the code computes it   *)
(* in: dist = baseRadius * 0.8 * cbrt((idx + 1) / total) * 1.5 along the   *)
(* unit vector (sin phi cos theta, sin phi sin theta, cos phi).  With      *)
(* baseRadius = 0.18 * total^0.2 > 0, dist is recorded by the rational     *)
(* (dist / (1.2 * baseRadius))^3 = distCubed[1] / distCubed[2], cos phi by *)
(* the rational cosPhi[1] / cosPhi[2], theta by its multiple of            *)
(* pi * (1 + sqrt 5).  The vector is the origin exactly when dist = 0.     *)

\* Largest proton and neutron counts tried.
MaxProtons == 6
MaxNeutrons == 6

SchemeNames == {"quantum", "classic", "neon"}

\* particles.push('proton') x protons, then particles.push('neutron') x neutrons
InitialParticles(protons, neutrons) ==
    [i \in 1..(protons + neutrons) |->
        IF i <= protons THEN "proton" ELSE "neutron"]

\* Mutant: particles[i] = particles[j] without the exchange.
SwapParticlesOverwrite(particles, i, j) ==
    [particles EXCEPT ![i + 1] = particles[j + 1]]

\* [particles[i], particles[j]] = [particles[j], particles[i]] (0-based i, j)
SwapParticles(particles, i, j) ==
    [particles EXCEPT ![i + 1] = particles[j + 1], ![j + 1] = particles[i + 1]]

\* new THREE.Vector3(0, 0, 0)
OriginPosition == [distCubed |-> <<0, 1>>, cosPhi |-> <<1, 1>>, thetaTurns |-> 0]

\* pos of the particle at 0-based index idx among total
NucleonPosition(idx, total) ==
    IF idx = 0 THEN OriginPosition
    ELSE [distCubed |-> <<idx + 1, total>>,
          cosPhi |-> <<total - (2 * idx + 1), total>>,
          thetaTurns |-> idx]

\* The mesh added for particle idx: position, colour and userData.
NucleonMesh(type, idx, total, scheme) ==
    [kind |-> "mesh",
     position |-> NucleonPosition(idx, total),
     color |-> <<scheme, type>>,
     userData |-> [type |-> type, isNucleon |-> TRUE, isGlow |-> FALSE]]

\* The back-side glow sphere of radius baseRadius * 2.5 (25 tenths).
GlowMesh(scheme) ==
    [kind |-> "mesh",
     position |-> OriginPosition,
     color |-> <<scheme, "nucleus_glow">>,
     userData |-> [type |-> "none", isNucleon |-> FALSE, isGlow |-> TRUE]]

\* particles.forEach(...) followed by the optional glow: the group's children.
NucleusChildren(particles, scheme, glowEffects) ==
    LET total == Len(particles)
        meshes == [k \in 1..total |->
                      NucleonMesh(particles[k], k - 1, total, scheme)]
    IN IF glowEffects THEN Append(meshes, GlowMesh(scheme)) ELSE meshes

NucIdle ==
    /\ nProtons = 0
    /\ nNeutrons = 0
    /\ nScheme = "quantum"
    /\ nGlowEffects = TRUE
    /\ nParticles = <<>>
    /\ nI = 0
    /\ nGroup = <<>>
    /\ nPc = "off"

\* A call buildNucleus(protons, neutrons, scheme) with state.glowEffects set.
NucInit ==
    /\ nProtons \in 1..MaxProtons
    /\ nNeutrons \in 0..MaxNeutrons
    /\ nScheme \in SchemeNames
    /\ nGlowEffects \in BOOLEAN
    /\ nParticles = <<>>
    /\ nI = 0
    /\ nGroup = <<>>
    /\ nPc = "fill"

\* The two push loops; the shuffle starts at i = particles.length - 1.
NucFill ==
    /\ nPc = "fill"
    /\ nParticles' = InitialParticles(nProtons, nNeutrons)
    /\ nI' = nProtons + nNeutrons - 1
    /\ nPc' = "shuffle"
    /\ UNCHANGED <<nProtons, nNeutrons, nScheme, nGlowEffects, nGroup>>

\* One iteration of the Fisher-Yates loop: j = floor(random * (i + 1)).
NucShuffleStep ==
    /\ nPc = "shuffle"
    /\ nI > 0
    /\ \E j \in 0..nI : nParticles' = SwapParticles(nParticles, nI, j)
    /\ nI' = nI - 1
    /\ UNCHANGED <<nProtons, nNeutrons, nScheme, nGlowEffects, nGroup, nPc>>

\* The loop has ended: place every particle, add the glow, return the group.
NucPlace ==
    /\ nPc = "shuffle"
    /\ ~(nI > 0)
    /\ nGroup' = NucleusChildren(nParticles, nScheme, nGlowEffects)
    /\ nPc' = "done"
    /\ UNCHANGED <<nProtons, nNeutrons, nScheme, nGlowEffects, nParticles, nI>>


----------------------------------------------------------------------------
(* Bond geometry composer                                                  *)
(* Points and vectors are integer triples.  A length is kept as its        *)
(* square; a normalised vector scaled to length len is kept as the pair    *)
(* (ray, len100): the vector along ray of length len100 / 100.  As in      *)
(* Vector3.normalize(), normalising the zero vector leaves the zero        *)
(* vector.                                                                 *)

\* Largest coordinate of the second endpoint.
MaxCoord == 2

Vec(x, y, z) == <<x, y, z>>
ZeroVec == Vec(0, 0, 0)
SubVectors(a, b) == Vec(a[1] - b[1], a[2] - b[2], a[3] - b[3])
AddVectors(a, b) == Vec(a[1] + b[1], a[2] + b[2], a[3] + b[3])
Negate(a) == Vec(0 - a[1], 0 - a[2], 0 - a[3])
Dot(a, b) == a[1] * b[1] + a[2] * b[2] + a[3] * b[3]
LengthSq(a) == Dot(a, a)
CrossVectors(a, b) ==
    Vec(a[2] * b[3] - a[3] * b[2],
        a[3] * b[1] - a[1] * b[3],
        a[1] * b[2] - a[2] * b[1])

\* v.normalize().multiplyScalar(len100 / 100)
Scaled(v, len100) ==
    IF v = ZeroVec THEN [ray |-> ZeroVec, len100 |-> 0]
    ELSE [ray |-> v, len100 |-> len100]

\* new THREE.Vector3(0, 0, 0) as an offset
ZeroOffset == [ray |-> ZeroVec, len100 |-> 0]

\* offset.clone().negate()
NegateOffset(o) == [ray |-> Negate(o.ray), len100 |-> o.len100]

\* Math.abs(dir.dot(perp)) / length > 0.9 for perp = (0, 1, 0).  With
\* length = 0 the quotient is NaN and the comparison false.
NearParallelToUp(dir) ==
    /\ LengthSq(dir) > 0
    /\ 100 * Dot(dir, Vec(0, 1, 0)) * Dot(dir, Vec(0, 1, 0)) > 81 * LengthSq(dir)

\* Mutant: the reference vector is never switched away from (0, 1, 0).
BondPerpAlwaysUp(dir) == Vec(0, 1, 0)

\* perp = (0, 1, 0), set to (1, 0, 0) when the bond is near-parallel to it
BondPerp(dir) ==
    IF NearParallelToUp(dir) THEN Vec(1, 0, 0) ELSE Vec(0, 1, 0)

\* The offsets array for the bond order.
BondOffsets(dir, order) ==
    IF order = 1 THEN <<ZeroOffset>>
    ELSE IF order = 2 THEN
        LET offset == Scaled(CrossVectors(dir, BondPerp(dir)), 15)
        IN <<offset, NegateOffset(offset)>>
    ELSE IF order = 3 THEN
        LET offset == Scaled(CrossVectors(dir, BondPerp(dir)), 20)
        IN <<ZeroOffset, offset, NegateOffset(offset)>>
    ELSE <<>>

\* bondColors[type] || bondColors.covalent
BondColor(type) ==
    IF type \in {"covalent", "polar", "ionic"} THEN type ELSE "covalent"

\* offsets.forEach: a cylinder and its glow per offset, both at mid + offset
\* (mid is kept doubled: mid2 = posA + posB) and along the bond direction.
BondChildren(posA, posB, order, type) ==
    LET dir == SubVectors(posB, posA)
        mid2 == AddVectors(posA, posB)
        offsets == BondOffsets(dir, order)
        radius1000 == IF order = 1 THEN 60 ELSE 40
    IN [k \in 1..(2 * Len(offsets)) |->
          IF k % 2 = 1
          THEN [kind |-> "cylinder", radius1000 |-> radius1000,
                lengthSq |-> LengthSq(dir), mid2 |-> mid2,
                offset |-> offsets[(k + 1) \div 2], axis |-> dir,
                color |-> BondColor(type),
                userData |-> [isBond |-> TRUE, type |-> type, order |-> order]]
          ELSE [kind |-> "glow", radius1000 |-> radius1000 * 3,
                lengthSq |-> LengthSq(dir), mid2 |-> mid2,
                offset |-> offsets[k \div 2], axis |-> dir,
                color |-> BondColor(type),
                userData |-> [isBond |-> FALSE, type |-> "none", order |-> 0]]]

BondEndpointsA == {Vec(x, y, z) : x \in -1..1, y \in -1..1, z \in -1..1}

BondEndpointsB ==
    {Vec(x, y, z) : x \in (0 - MaxCoord)..MaxCoord,
                    y \in (0 - MaxCoord)..MaxCoord,
                    z \in (0 - MaxCoord)..MaxCoord}

BondOrders == {1, 2, 3}

BondTypes == {"covalent", "polar", "ionic"}

BondIdle ==
    /\ bPosA = ZeroVec
    /\ bPosB = ZeroVec
    /\ bOrder = 0
    /\ bType = "none"
    /\ bGroup = <<>>
    /\ bPc = "off"

\* A call buildBondCylinder(posA, posB, order, type).
BondInit ==
    /\ bPosA \in BondEndpointsA
    /\ bPosB \in BondEndpointsB
    /\ bOrder \in BondOrders
    /\ bType \in BondTypes
    /\ bGroup = <<>>
    /\ bPc = "call"

BondBuild ==
    /\ bPc = "call"
    /\ bGroup' = BondChildren(bPosA, bPosB, bOrder, bType)
    /\ bPc' = "done"
    /\ UNCHANGED <<bPosA, bPosB, bOrder, bType>>

----------------------------------------------------------------------------
(* JavaScript Number arithmetic of the samplers                             *)
(*                                                                         *)
(* A Number is a binary floating-point value m * 2^e with a signed         *)
(* mantissa of MantissaBits bits (|m| in [2^14, 2^15), or m = 0), every    *)
(* operation rounding its exact result to the nearest such value.          *)

Abs(k) == IF k < 0 THEN 0 - k ELSE k
Sign(k) == IF k < 0 THEN 0 - 1 ELSE 1

\* Number of binary digits of a, for 1 <= a < 2^31.
BitLen(a) ==
    LET B4(b) == IF b < 2 THEN 1 ELSE IF b < 4 THEN 2 ELSE IF b < 8 THEN 3 ELSE 4
        B8(b) == IF b < 16 THEN B4(b) ELSE 4 + B4(b \div 16)
    IN IF a < 65536
       THEN (IF a < 256 THEN B8(a) ELSE 8 + B8(a \div 256))
       ELSE (IF a < 16777216 THEN 16 + B8(a \div 65536)
             ELSE 24 + B8(a \div 16777216))

Float(m, e) == [m |-> m, e |-> e]
FZero == Float(0, 0)
FOne == Float(16384, 0 - 14)

\* Round the exact value m * 2^e to the nearest representable Number.
FNorm(m, e) ==
    LET Rounded(a, s) == (a + 2 ^ (s - 1)) \div (2 ^ s)
        Shifted(a, s, sgn) ==
            IF Rounded(a, s) = 32768
            THEN Float(sgn * 16384, e + s + 1)
            ELSE Float(sgn * Rounded(a, s), e + s)
        Placed(a, bits, sgn) ==
            IF bits > 15 THEN Shifted(a, bits - 15, sgn)
            ELSE Float(sgn * a * 2 ^ (15 - bits), e - (15 - bits))
    IN IF m = 0 THEN FZero ELSE Placed(Abs(m), BitLen(Abs(m)), Sign(m))

FInt(k) == FNorm(k, 0)
FMul(a, b) == FNorm(a.m * b.m, a.e + b.e)
FDiv(a, b) ==
    FNorm(Sign(a.m) * Sign(b.m) * ((Abs(a.m) * 32768) \div Abs(b.m)), a.e - 15 - b.e)
FAdd(a, b) ==
    IF a.m = 0 THEN b
    ELSE IF b.m = 0 THEN a
    ELSE IF a.e - b.e >= 16 THEN a
    ELSE IF b.e - a.e >= 16 THEN b
    ELSE IF a.e >= b.e THEN FNorm(a.m * (2 ^ (a.e - b.e)) + b.m, b.e)
    ELSE FNorm(b.m * (2 ^ (b.e - a.e)) + a.m, a.e)
FSub(a, b) == FAdd(a, Float(0 - b.m, b.e))
FRat(p, q) == FDiv(FInt(p), FInt(q))

\* a < b
FLt(a, b) ==
    IF a.m = 0 THEN b.m > 0
    ELSE IF b.m = 0 THEN a.m < 0
    ELSE IF (a.m < 0) # (b.m < 0) THEN a.m < 0
    ELSE IF a.e = b.e THEN a.m < b.m
    ELSE IF a.m > 0 THEN a.e < b.e
    ELSE a.e > b.e
FLe(a, b) == ~FLt(b, a)

\* Math.pow(a, k) for an integer exponent k >= 0.
RECURSIVE FPow(_, _)
FPow(a, k) == IF k = 0 THEN FOne ELSE FMul(a, FPow(a, k - 1))

FSq(a) == FMul(a, a)

\* Math.exp(-x) for x >= 0: exp(-x/32) by its Taylor polynomial of degree 5,
\* then five squarings.
FExpNeg(x) ==
    LET Taylor(y) ==
            FAdd(FSub(FOne, y),
                 FMul(FSq(y),
                      FAdd(FRat(1, 2),
                           FMul(y, FAdd(FRat(0 - 1, 6),
                                        FMul(y, FAdd(FRat(1, 24),
                                                     FMul(y, FRat(0 - 1, 120)))))))))
    IN FSq(FSq(FSq(FSq(FSq(Taylor(FDiv(x, FInt(32))))))))

\* Math.sqrt(a) for a >= 0: six steps of Newton's iteration from a power
\* of two.
FSqrt(a) ==
    LET Step(g) == FMul(FRat(1, 2), FAdd(g, FDiv(a, g)))
    IN IF a.m = 0 THEN FZero
       ELSE Step(Step(Step(Step(Step(Step(Float(16384, ((a.e + 15) \div 2) - 14)))))))

\* Math.min(a, b)
FMin(a, b) == IF FLt(a, b) THEN a ELSE b

----------------------------------------------------------------------------
(* radialScale, laguerreL, radialProbability                                *)

\* 2.5 + (n - 1) * 2.0
radialScale(n) == FAdd(FRat(5, 2), FMul(FInt(n - 1), FInt(2)))

RECURSIVE LaguerreLoop(_, _, _, _, _, _)
LaguerreLoop(i, p, k, x, lPrev1, lPrev2) ==
    IF i > p THEN lPrev1
    ELSE LaguerreLoop(i + 1, p, k, x,
             FDiv(FSub(FMul(FSub(FInt(2 * i - 1 + k), x), lPrev1),
                       FMul(FInt(i - 1 + k), lPrev2)),
                  FInt(i)),
             lPrev1)

\* Mutant: the recurrence is never entered.
laguerreLFirstOrder(p, k, x) ==
    IF p = 0 THEN FOne ELSE FSub(FInt(1 + k), x)

laguerreL(p, k, x) ==
    IF p = 0 THEN FOne
    ELSE IF p = 1 THEN FSub(FInt(1 + k), x)
    ELSE LaguerreLoop(2, p, k, x, FSub(FInt(1 + k), x), FOne)

\* Rnl = rho^l * L * exp(-rho / 2)
RadialRnl(n, l, rho) ==
    FMul(FMul(FPow(rho, l), laguerreL(n - l - 1, 2 * l + 1, rho)),
         FExpNeg(FDiv(rho, FInt(2))))

radialProbability(n, l, rho) ==
    FMul(FMul(rho, rho), FSq(RadialRnl(n, l, rho)))

----------------------------------------------------------------------------
(* sampleRadius(n, l)                                                      *)

MaxN == 4
DrawGrid == 24
UnitGrid == 4
ScanPoints == 200
MaxAttempts == 500

\* Math.random() on a grid of den points of [0, 1)
RandomDraws(den) == {FRat(k, den) : k \in 0..(den - 1)}

rhoMaxOf(n) == 3 * n + 4

\* (i / 200) * rhoMax
ScanRho(n, i) == FMul(FRat(i, ScanPoints), FInt(rhoMaxOf(n)))

\* Math.random() * rhoMax for the j-th point of the draw grid
DrawRho(n, j) == FMul(FRat(j, DrawGrid), FInt(rhoMaxOf(n)))

SafetyMarginBelowOne(probMax) == FMul(probMax, FRat(95, 100))
SafetyMargin(probMax) == FMul(probMax, FRat(105, 100))

\* probMax = 0; for (i = 0; i <= 200; i++) if (p > probMax) probMax = p
ScanValues(n, l) ==
    {FZero} \cup {radialProbability(n, l, ScanRho(n, i)) : i \in 0..ScanPoints}
FMaxOf(S) == CHOOSE p \in S : \A q \in S : FLe(q, p)
ScanProbMax(n, l) == FMaxOf(ScanValues(n, l))

NoResult == [r |-> FZero, radialDensity |-> FZero]

\* { r: rho * R / (2 * n), radialDensity: prob / probMax }
RadialAccepted(n, rho, prob, probMax) ==
    [r |-> FDiv(FMul(rho, radialScale(n)), FInt(2 * n)),
     radialDensity |-> FDiv(prob, probMax)]

\* { r: R * 0.5, radialDensity: 0.3 }
RadialFallbackResult(n) ==
    [r |-> FMul(radialScale(n), FRat(1, 2)), radialDensity |-> FRat(3, 10)]

\* What one iteration of the rejection loop computes from the draw
\* rho = DrawRho(n, j): prob, and the value it returns if it accepts.  Both
\* depend on (n, l, probMax, rho) only, so rProbAt keeps them from the end of
\* the scan on instead of recomputing them at every attempt.
LoopBodyOf(n, rho, prob, probMax) ==
    [prob |-> prob, accepted |-> RadialAccepted(n, rho, prob, probMax)]
LoopBodyAt(n, l, probMax) ==
    [j \in 0..(DrawGrid - 1) |->
        LoopBodyOf(n, DrawRho(n, j), radialProbability(n, l, DrawRho(n, j)), probMax)]

RadIdle ==
    /\ rN = 1
    /\ rL = 0
    /\ rProbMax = FZero
    /\ rAttempt = 0
    /\ rProbAt = << >>
    /\ rResult = NoResult
    /\ rPc = "idle"

RadInit ==
    /\ rN \in 1..MaxN
    /\ rL \in 0..(rN - 1)
    /\ rProbMax = FZero
    /\ rAttempt = 0
    /\ rProbAt = << >>
    /\ rResult = NoResult
    /\ rPc = "scan"

RadScan ==
    /\ rPc = "scan"
    /\ rProbMax' = SafetyMargin(ScanProbMax(rN, rL))
    /\ rProbAt' = LoopBodyAt(rN, rL, rProbMax')
    /\ rPc' = "loop"
    /\ UNCHANGED <<rN, rL, rAttempt, rResult>>

\* Math.random() * probMax < prob
RadialAccepts(u, probMax, prob) == FLt(FMul(u, probMax), prob)

\* One iteration of the rejection loop.  The draw either is accepted and
\* returned, or is rejected and the attempt counted; the rejected draws all
\* lead to the same state.
RadAttempt ==
    /\ rPc = "loop"
    /\ rAttempt < MaxAttempts
    /\ \/ \E j \in 0..(DrawGrid - 1) :
             /\ (\E u \in RandomDraws(UnitGrid) :
                    RadialAccepts(u, rProbMax, rProbAt[j].prob)) = TRUE
             /\ rResult' = rProbAt[j].accepted
             /\ rPc' = "returned"
             /\ UNCHANGED rAttempt
       \/ /\ (\E j \in 0..(DrawGrid - 1) :
                 \E u \in RandomDraws(UnitGrid) :
                    ~RadialAccepts(u, rProbMax, rProbAt[j].prob)) = TRUE
          /\ rAttempt' = rAttempt + 1
          /\ UNCHANGED <<rResult, rPc>>
    /\ UNCHANGED <<rN, rL, rProbMax, rProbAt>>

RadFallback ==
    /\ rPc = "loop"
    /\ rAttempt >= MaxAttempts
    /\ rResult' = RadialFallbackResult(rN)
    /\ rPc' = "returned"
    /\ UNCHANGED <<rN, rL, rProbMax, rAttempt, rProbAt>>

----------------------------------------------------------------------------
(* sampleSOrbital, samplePOrbital, sampleDOrbital, sampleFOrbital,         *)
(* sampleOrbitalPositions                                                  *)

MaxCount == 2

\* Every value a call sampleRadius(n, l) can return when its rho draws fall
\* on the points of the draw grid listed in points; exhausted marks the
\* return taken after MaxAttempts rejected attempts.
RadialReturnsGiven(n, body, probMax, points) ==
    {[value |-> body[j].accepted, exhausted |-> FALSE] :
        j \in {k \in points :
                 \E u \in RandomDraws(UnitGrid) : RadialAccepts(u, probMax, body[k].prob)}}
    \cup
    (IF \E j \in points :
           \E u \in RandomDraws(UnitGrid) : ~RadialAccepts(u, probMax, body[j].prob)
     THEN {[value |-> RadialFallbackResult(n), exhausted |-> TRUE]}
     ELSE {})

sampleRadiusReturns(n, l, points) ==
    UNION {RadialReturnsGiven(n, LoopBodyAt(n, l, probMax), probMax, points) :
              probMax \in {SafetyMargin(ScanProbMax(n, l))}}

\* The rho draws of the orbital samplers: the first and the middle point of
\* the draw grid.
SamplerPoints == {0, DrawGrid \div 2}

\* An angle drawn as Math.random() * 2 * Math.PI, kept as its cosine and sine.
Angle(c, s) == [cos |-> c, sin |-> s]
AngleDraws == {Angle(FOne, FZero), Angle(FRat(3, 5), FRat(4, 5))}
Sin2(a) == FMul(FInt(2), FMul(a.sin, a.cos))
Cos2(a) == FSub(FSq(a.cos), FSq(a.sin))
Cos3(a) == FSub(FMul(FInt(4), FPow(a.cos, 3)), FMul(FInt(3), a.cos))
Sin3(a) == FSub(FMul(FInt(3), a.sin), FMul(FInt(4), FPow(a.sin, 3)))

\* 2 * Math.random() - 1
CosDraws == {FSub(FMul(FInt(2), u), FOne) : u \in {FZero, FRat(4, 5)}}

\* One draw of an angular loop: cosT, sinT = sqrt(1 - cosT^2), phi and the
\* direction x = sinT cos(phi), y = cosT, z = sinT sin(phi).
AngularDrawOf(cosT, sinT, phi) ==
    [cosT |-> cosT, sinT |-> sinT, phi |-> phi,
     x |-> FMul(sinT, phi.cos), y |-> cosT, z |-> FMul(sinT, phi.sin)]
AngularDraws ==
    {AngularDrawOf(c, FSqrt(FSub(FOne, FSq(c))), phi) : c \in CosDraws, phi \in AngleDraws}

pAngularVal(ml, d) ==
    IF ml = 0 THEN FSq(d.y) ELSE IF ml = 1 THEN FSq(d.x) ELSE FSq(d.z)

dAngularVal(ml, d) ==
    CASE ml = 0 -> FDiv(FSq(FSub(FMul(FInt(3), FSq(d.cosT)), FOne)), FInt(4))
      [] ml = 1 -> FMul(FMul(FMul(FSq(d.sinT), FSq(d.cosT)), FSq(d.phi.cos)), FInt(4))
      [] ml = 0 - 1 -> FMul(FMul(FMul(FSq(d.sinT), FSq(d.cosT)), FSq(d.phi.sin)), FInt(4))
      [] ml = 2 -> FMul(FSq(FSq(d.sinT)), FSq(Sin2(d.phi)))
      [] ml = 0 - 2 -> FMul(FSq(FSq(d.sinT)), FSq(Cos2(d.phi)))
      [] OTHER -> FOne

fAngularVal(ml, d) ==
    CASE ml = 0 ->
           FMul(FSq(FMul(d.y, FSub(FMul(FInt(5), FSq(d.cosT)), FInt(3)))), FRat(1, 10))
      [] ml = 1 ->
           FMul(FMul(FMul(FSq(d.sinT), FSq(FSub(FMul(FInt(5), FSq(d.cosT)), FOne))),
                     FSq(d.phi.cos)), FRat(8, 100))
      [] ml = 0 - 1 ->
           FMul(FMul(FMul(FSq(d.sinT), FSq(FSub(FMul(FInt(5), FSq(d.cosT)), FOne))),
                     FSq(d.phi.sin)), FRat(8, 100))
      [] ml = 2 ->
           FMul(FMul(FMul(FSq(FSq(d.sinT)), FSq(d.cosT)), FSq(Sin2(d.phi))), FInt(2))
      [] ml = 0 - 2 ->
           FMul(FMul(FMul(FSq(FSq(d.sinT)), FSq(d.cosT)), FSq(Cos2(d.phi))), FInt(2))
      [] ml = 3 -> FMul(FPow(FSq(d.sinT), 3), FSq(Cos3(d.phi)))
      [] ml = 0 - 3 -> FMul(FPow(FSq(d.sinT), 3), FSq(Sin3(d.phi)))
      [] OTHER -> FRat(1, 2)

\* The square of angularProb: Math.pow(angularVal, 3.5),
\* Math.min(Math.pow(angularVal, 2.5), 1), Math.min(Math.pow(angularVal, 2.0), 1)
pAngularProbSq(angularVal) == FPow(angularVal, 7)
dAngularProbSq(angularVal) == FMin(FPow(angularVal, 5), FOne)
fAngularProbSq(angularVal) == FMin(FPow(angularVal, 4), FOne)

\* Math.random() < angularProb, both sides squared
AngularAccepts(u, probSq) == FLt(FSq(u), probSq)

\* One iteration of an angular loop: the draw, its angularVal and the
\* square of its angularProb.
AngularTrial(d, angularVal, probSq) == [draw |-> d, val |-> angularVal, probSq |-> probSq]

\* What an angular loop leaves behind: x, y, z and angularVal; exhausted
\* marks the fallback taken after MaxAttempts rejected draws.
AngularReturn(x, y, z, angularVal, exhausted) ==
    [x |-> x, y |-> y, z |-> z, angularVal |-> angularVal, exhausted |-> exhausted]

AngularLoopReturns(trials, fallbacks) ==
    {AngularReturn(t.draw.x, t.draw.y, t.draw.z, t.val, FALSE) :
        t \in {w \in trials : \E u \in RandomDraws(UnitGrid) : AngularAccepts(u, w.probSq)}}
    \cup
    (IF \E w \in trials : \E u \in RandomDraws(UnitGrid) : ~AngularAccepts(u, w.probSq)
     THEN fallbacks
     ELSE {})

\* Math.random() < 0.5 ? 1 : -1
SignDraws == {1, 0 - 1}

\* (Math.random() - 0.5) * spread, spread = 0.15
SpreadDraws == {FMul(FSub(u, FRat(1, 2)), FRat(15, 100)) : u \in RandomDraws(2)}

\* len = Math.sqrt(x * x + y * y + z * z); x /= len; y /= len; z /= len
NormalizedFallback(x, y, z, angularVal) ==
    LET len == FSqrt(FAdd(FAdd(FSq(x), FSq(y)), FSq(z)))
    IN AngularReturn(FDiv(x, len), FDiv(y, len), FDiv(z, len), angularVal, TRUE)

pFallbacks(ml) ==
    {IF ml = 0 THEN NormalizedFallback(s1, FInt(sign), s2, FRat(9, 10))
     ELSE IF ml = 1 THEN NormalizedFallback(FInt(sign), s1, s2, FRat(9, 10))
     ELSE NormalizedFallback(s1, s2, FInt(sign), FRat(9, 10)) :
        sign \in SignDraws, s1 \in SpreadDraws, s2 \in SpreadDraws}

dFallbacks(ml) ==
    {IF ml = 0
     THEN AngularReturn(FZero, FInt(sign), FZero, FRat(8, 10), TRUE)
     ELSE AngularReturn(FMul(FInt(sign), FRat(707, 1000)), FZero,
                        FMul(FInt(sign), FRat(707, 1000)), FRat(8, 10), TRUE) :
        sign \in SignDraws}

fFallbacks == {AngularReturn(FZero, FInt(sign), FZero, FRat(7, 10), TRUE) : sign \in SignDraws}

\* { pos: new THREE.Vector3(x * r, y * r, z * r), density }
Sample(x, y, z, r, density) ==
    [pos |-> <<FMul(x, r), FMul(y, r), FMul(z, r)>>, density |-> density]

\* A sample with the branches that produced it.
Outcome(sample, radialExhausted, a) ==
    [sample |-> sample, radialExhausted |-> radialExhausted,
     angularExhausted |-> a.exhausted, x |-> a.x, y |-> a.y, z |-> a.z]

\* The samplers, given the returns of their call to sampleRadius.
sampleSOrbital(radialReturns) ==
    {Outcome(Sample(d.x, d.y, d.z, rr.value.r, rr.value.radialDensity), rr.exhausted,
             AngularReturn(d.x, d.y, d.z, FOne, FALSE)) :
        rr \in radialReturns, d \in AngularDraws}

AngularSampler(radialReturns, angularReturns) ==
    {Outcome(Sample(a.x, a.y, a.z, rr.value.r, FMul(rr.value.radialDensity, a.angularVal)),
             rr.exhausted, a) :
        rr \in radialReturns, a \in angularReturns}

samplePOrbital(radialReturns, ml) ==
    AngularSampler(radialReturns,
        AngularLoopReturns(
            {AngularTrial(d, pAngularVal(ml, d), pAngularProbSq(pAngularVal(ml, d))) :
                d \in AngularDraws},
            pFallbacks(ml)))

sampleDOrbital(radialReturns, ml) ==
    AngularSampler(radialReturns,
        AngularLoopReturns(
            {AngularTrial(d, dAngularVal(ml, d), dAngularProbSq(dAngularVal(ml, d))) :
                d \in AngularDraws},
            dFallbacks(ml)))

sampleFOrbital(radialReturns, ml) ==
    AngularSampler(radialReturns,
        AngularLoopReturns(
            {AngularTrial(d, fAngularVal(ml, d), fAngularProbSq(fAngularVal(ml, d))) :
                d \in AngularDraws},
            fFallbacks))

\* switch (l) of sampleOrbitalPositions
SampleOutcomes(l, ml, radialReturns) ==
    CASE l = 0 -> sampleSOrbital(radialReturns)
      [] l = 1 -> samplePOrbital(radialReturns, ml)
      [] l = 2 -> sampleDOrbital(radialReturns, ml)
      [] l = 3 -> sampleFOrbital(radialReturns, ml)
      [] OTHER -> sampleSOrbital(radialReturns)

\* The radial call of the sampler chosen by switch (l): sampleSOrbital calls
\* sampleRadius(n, 0), also in the default branch.
RadialLOf(l) == IF l \in 1..3 THEN l ELSE 0

PushedUnlessExhausted(results, outcome) ==
    IF outcome.radialExhausted \/ outcome.angularExhausted
    THEN results
    ELSE Append(results, outcome.sample)
\* results.push(sample)
Pushed(results, outcome) == Append(results, outcome.sample)

\* sOutcomes holds the samples one call of the sampler selected by
\* switch (l) can return for (n, l, ml): they do not depend on the
\* iteration, so they are evaluated once per call.  sTaken records, for
\* each pushed sample, the outcome it was taken from.
SampIdle ==
    /\ sN = 1
    /\ sL = 0
    /\ sMl = 0
    /\ sCount = 0
    /\ sI = 0
    /\ sResults = << >>
    /\ sTaken = << >>
    /\ sOutcomes = {}
    /\ sPc = "idle"

SampInit ==
    \E n \in 1..MaxN :
       \E l \in 0..(n - 1) :
          \E radialReturns \in {sampleRadiusReturns(n, RadialLOf(l), SamplerPoints)} :
             \E ml \in (0 - l)..l :
                /\ sN = n
                /\ sL = l
                /\ sMl = ml
                /\ sCount \in 0..MaxCount
                /\ sI = 0
                /\ sResults = << >>
                /\ sTaken = << >>
                /\ sOutcomes = SampleOutcomes(l, ml, radialReturns)
                /\ sPc = "loop"

SampIterate ==
    /\ sPc = "loop"
    /\ sI < sCount
    /\ \E outcome \in sOutcomes :
          /\ sResults' = Pushed(sResults, outcome)
          /\ sTaken' = Append(sTaken, outcome)
    /\ sI' = sI + 1
    /\ UNCHANGED <<sN, sL, sMl, sCount, sOutcomes, sPc>>

SampReturn ==
    /\ sPc = "loop"
    /\ sI >= sCount
    /\ sPc' = "returned"
    /\ UNCHANGED <<sN, sL, sMl, sCount, sI, sResults, sTaken, sOutcomes>>

----------------------------------------------------------------------------
(* buildBondCloud                                                           *)
(*                                                                         *)
(* posA and posB are integer triples over the denominator bcDen (a         *)
(* coordinate is x / bcDen).  A unit vector is a record [ray, den]         *)
(* standing for ray / den, with |ray| = den.  state.cloudDensity is        *)
(* bcDensity / 2000.  An emitted position is kept as the terms of          *)
(*   mid + dirNorm * t + perp1 * r * cos(angle) + perp2 * r * sin(angle).  *)

MaxDensityUnits == 1
UniformGrid == 4

Rational(num, den) == [num |-> num, den |-> den]

RECURSIVE Gcd(_, _)
Gcd(a, b) == IF b = 0 THEN a ELSE Gcd(b, a % b)

\* The shortest integer vector along v (v # 0) and the factor between them.
Primitive(v) ==
    LET g == Gcd(Gcd(Abs(v[1]), Abs(v[2])), Abs(v[3]))
    IN [ray |-> Vec(Sign(v[1]) * (Abs(v[1]) \div g),
                    Sign(v[2]) * (Abs(v[2]) \div g),
                    Sign(v[3]) * (Abs(v[3]) \div g)),
        factor |-> g]

\* v.normalize(): v / (v.length() || 1)
Normalized(v) ==
    IF v = ZeroVec THEN [ray |-> ZeroVec, den |-> 1]
    ELSE LET w == Primitive(v).ray
         IN [ray |-> w,
             den |-> CHOOSE n \in 1..(Abs(w[1]) + Abs(w[2]) + Abs(w[3])) :
                         n * n = LengthSq(w)]

\* dir.length(), in units of 1 / bcDen
VectorLength(v) ==
    IF v = ZeroVec THEN 0 ELSE Primitive(v).factor * Normalized(v).den

\* Mutant: no bond is taken for degenerate.
BondCloudNeverDegenerate(dir, den) == FALSE

\* length < 0.001
BondCloudDegenerate(dir, den) == (1000000 \div den) * LengthSq(dir) < den

\* dirNorm, perp1 and perp2.  up is (0, 1, 0), set to (1, 0, 0) when
\* |dirNorm . up| > 0.9; normalising the cross product of two vectors
\* normalises the cross product of their rays.
BondCloudFrame(dir) ==
    LET dirNorm == Normalized(dir)
        up == IF 10 * Abs(dirNorm.ray[2]) > 9 * dirNorm.den
              THEN Vec(1, 0, 0) ELSE Vec(0, 1, 0)
        perp1 == Normalized(CrossVectors(dirNorm.ray, up))
        perp2 == Normalized(CrossVectors(dirNorm.ray, perp1.ray))
    IN [dirNorm |-> dirNorm, perp1 |-> perp1, perp2 |-> perp2]

\* Math.round(order * 2000 * state.cloudDensity)
BondCloudParticleCount(order, density) ==
    (2 * order * 2000 * density + 2000) \div (2 * 2000)

\* t = (Math.random() - 0.5) * length * 0.7 for the draw k / UniformGrid
BondCloudAlong(k, length, den) ==
    Rational((2 * k - UniformGrid) * length * 7, 20 * UniformGrid * den)

\* Math.sqrt(-2 * Math.log(safeRand)), in halves: safeRand is in [1e-6, 1),
\* the root in (0, 5.26].
GaussianDraws == {1, 4, 6, 7, 10}

\* Math.random() * Math.PI * 2, as 5 * cos and 5 * sin of the angle
BondAngleDraws ==
    {[cos5 |-> 5, sin5 |-> 0], [cos5 |-> 3, sin5 |-> 4],
     [cos5 |-> 0 - 4, sin5 |-> 3], [cos5 |-> 0, sin5 |-> 0 - 5]}

\* Mutant: the radius is not clamped to three spread radii.
BondCloudRadiusUnclamped(order, g2) == Rational((25 + 8 * order) * g2, 200)

\* spreadRadius = 0.25 + order * 0.08;
\* r = Math.min(spreadRadius * g, spreadRadius * 3) for g = g2 / 2
BondCloudRadius(order, g2) == Rational((25 + 8 * order) * Min(g2, 6), 200)

\* isFinite(x) for a quotient: dividing by 0 gives Infinity or NaN
IsFinite(q) == q.den # 0

\* distFromCenter = Math.abs(t) / (length * 0.35), which the colour of the
\* point is computed from (length in units of 1 / den)
BondCloudDistFromCenter(t, length, den) ==
    Rational(Abs(t.num) * den * 100, t.den * length * 35)

\* if (!isFinite(px) || !isFinite(py) || !isFinite(pz)) the position
\* written to posArray and basePos is mid, else (px, py, pz)
BondCloudStored(p) ==
    IF /\ IsFinite(p.t) /\ IsFinite(p.rCos) /\ IsFinite(p.rSin)
       /\ p.dirNorm.den # 0 /\ p.perp1.den # 0 /\ p.perp2.den # 0
    THEN p
    ELSE [p EXCEPT !.t = Rational(0, 1), !.rCos = Rational(0, 1),
                   !.rSin = Rational(0, 1)]

\* One iteration of the particle loop: the terms of (px, py, pz) and the
\* distance the colour is computed from.
BondCloudPoint(posA, posB, den, order, k, g2, angle) ==
    LET dir == SubVectors(posB, posA)
        frame == BondCloudFrame(dir)
        r == BondCloudRadius(order, g2)
        t == BondCloudAlong(k, VectorLength(dir), den)
    IN BondCloudStored(
         [mid2 |-> AddVectors(posA, posB),
          dirNorm |-> frame.dirNorm,
          perp1 |-> frame.perp1,
          perp2 |-> frame.perp2,
          t |-> t,
          rCos |-> Rational(r.num * angle.cos5, r.den * 5),
          rSin |-> Rational(r.num * angle.sin5, r.den * 5),
          dist |-> BondCloudDistFromCenter(t, VectorLength(dir), den)])

NoPoint == [mid2 |-> ZeroVec]

\* Bonds of 3.0, 4.0, 2.0 and 0.5 units, a bond from a point to itself, and
\* bonds of 0.0005 and of exactly 0.001 units.
BondCloudInputs ==
    {[posA |-> Vec(0 - 150, 0, 0), posB |-> Vec(150, 0, 0), den |-> 100],
     [posA |-> Vec(0 - 200, 0, 0), posB |-> Vec(200, 0, 0), den |-> 100],
     [posA |-> Vec(0, 40, 0), posB |-> Vec(0, 240, 0), den |-> 100],
     [posA |-> Vec(0, 0, 0), posB |-> Vec(0, 120, 160), den |-> 100],
     [posA |-> Vec(10, 0, 0), posB |-> Vec(50, 0, 30), den |-> 100],
     [posA |-> Vec(100, 50, 0), posB |-> Vec(100, 50, 0), den |-> 100],
     [posA |-> Vec(0, 0, 0), posB |-> Vec(5, 0, 0), den |-> 10000],
     [posA |-> Vec(0, 0, 0), posB |-> Vec(0, 3, 4), den |-> 10000],
     [posA |-> Vec(0, 0, 0), posB |-> Vec(0, 10, 0), den |-> 10000]}

BcIdle ==
    /\ bcPosA = ZeroVec
    /\ bcPosB = ZeroVec
    /\ bcDen = 1
    /\ bcOrder = 0
    /\ bcDensity = 0
    /\ bcI = 0
    /\ bcPoint = NoPoint
    /\ bcPc = "off"

\* A call buildBondCloud(posA, posB, order) under some state.cloudDensity.
BcInit ==
    /\ \E in \in BondCloudInputs :
          /\ bcPosA = in.posA
          /\ bcPosB = in.posB
          /\ bcDen = in.den
    /\ bcOrder \in BondOrders
    /\ bcDensity \in 1..MaxDensityUnits
    /\ bcI = 0
    /\ bcPoint = NoPoint
    /\ bcPc = "call"

\* if (length < 0.001) return null
BcEnter ==
    /\ bcPc = "call"
    /\ bcPc' = IF BondCloudDegenerate(SubVectors(bcPosB, bcPosA), bcDen)
               THEN "null" ELSE "loop"
    /\ UNCHANGED <<bcPosA, bcPosB, bcDen, bcOrder, bcDensity, bcI, bcPoint>>

\* for (let i = 0; i < particleCount; i++)
BcEmit ==
    /\ bcPc = "loop"
    /\ bcI < BondCloudParticleCount(bcOrder, bcDensity)
    /\ \E k \in 0..(UniformGrid - 1), g2 \in GaussianDraws, angle \in BondAngleDraws :
          bcPoint' = BondCloudPoint(bcPosA, bcPosB, bcDen, bcOrder, k, g2, angle)
    /\ bcI' = bcI + 1
    /\ UNCHANGED <<bcPosA, bcPosB, bcDen, bcOrder, bcDensity, bcPc>>

\* return { points, basePositions }
BcReturn ==
    /\ bcPc = "loop"
    /\ bcI >= BondCloudParticleCount(bcOrder, bcDensity)
    /\ bcPc' = "returned"
    /\ UNCHANGED <<bcPosA, bcPosB, bcDen, bcOrder, bcDensity, bcI, bcPoint>>

----------------------------------------------------------------------------
(* The scene assembler: state, rebuildAtom, rebuildMolecule, the UI        *)
(* handlers and animate                                                    *)
(*                                                                         *)
(* An object of the scene graph is a record; id is its identity, a pair    *)
(* <<generation, index>> where the generation is fresh for every rebuild   *)
(* and the index is the position at which the rebuild added the object to  *)
(* atomGroup.  A handle (nucleusGroup, an entry of orbitalClouds or of     *)
(* labelSprites) holds an id.  Positions are integer triples in units of   *)
(* 0.05; scales and opacities are in hundredths; state.cloudDensity,       *)
(* state.nucleusScale and state.animationSpeed are in tenths.  The random  *)
(* draws of one rebuild are summed up in its seed.                         *)

ElementSymbols ==
    <<"H", "He", "Li", "Be", "B", "C", "N", "O", "F", "Ne", "Na", "Mg",
      "Al", "Si", "P", "S", "Cl", "Ar", "K", "Ca", "Sc", "Ti", "V", "Cr",
      "Mn", "Fe", "Co", "Ni", "Cu", "Zn", "Ga", "Ge", "As", "Se", "Br", "Kr">>

ElementNeutrons ==
    <<0, 2, 4, 5, 6, 6, 7, 8, 10, 10, 12, 12, 14, 14, 16, 16, 18, 22, 20, 20,
      24, 26, 28, 28, 30, 30, 32, 31, 35, 35, 39, 41, 42, 45, 45, 48>>

\* ELEMENTS, keyed by z.  A key outside DOMAIN ELEMENTS reads as undefined.
ELEMENTS ==
    [z \in 1..Len(ElementSymbols) |->
        [z |-> z, symbol |-> ElementSymbols[z], neutrons |-> ElementNeutrons[z]]]

MoleculeAtom(z, x, y, zz) == [z |-> z, pos |-> Vec(x, y, zz)]
MoleculeBond(from, to, order, type) ==
    [from |-> from, to |-> to, order |-> order, type |-> type]

MOLECULES ==
    [name \in {"H2", "O2", "N2", "H2O", "CO2", "NaCl", "CH4", "NH3"} |->
        CASE name = "H2" ->
               [atoms |-> <<MoleculeAtom(1, 0 - 30, 0, 0), MoleculeAtom(1, 30, 0, 0)>>,
                bonds |-> <<MoleculeBond(0, 1, 1, "covalent")>>]
          [] name = "O2" ->
               [atoms |-> <<MoleculeAtom(8, 0 - 40, 0, 0), MoleculeAtom(8, 40, 0, 0)>>,
                bonds |-> <<MoleculeBond(0, 1, 2, "covalent")>>]
          [] name = "N2" ->
               [atoms |-> <<MoleculeAtom(7, 0 - 36, 0, 0), MoleculeAtom(7, 36, 0, 0)>>,
                bonds |-> <<MoleculeBond(0, 1, 3, "covalent")>>]
          [] name = "H2O" ->
               [atoms |-> <<MoleculeAtom(8, 0, 8, 0),
                            MoleculeAtom(1, 0 - 40, 0 - 24, 0),
                            MoleculeAtom(1, 40, 0 - 24, 0)>>,
                bonds |-> <<MoleculeBond(0, 1, 1, "polar"),
                            MoleculeBond(0, 2, 1, "polar")>>]
          [] name = "CO2" ->
               [atoms |-> <<MoleculeAtom(6, 0, 0, 0),
                            MoleculeAtom(8, 0 - 60, 0, 0),
                            MoleculeAtom(8, 60, 0, 0)>>,
                bonds |-> <<MoleculeBond(0, 1, 2, "polar"),
                            MoleculeBond(0, 2, 2, "polar")>>]
          [] name = "NaCl" ->
               [atoms |-> <<MoleculeAtom(11, 0 - 50, 0, 0), MoleculeAtom(17, 50, 0, 0)>>,
                bonds |-> <<MoleculeBond(0, 1, 1, "ionic")>>]
          [] name = "CH4" ->
               [atoms |-> <<MoleculeAtom(6, 0, 0, 0),
                            MoleculeAtom(1, 44, 44, 44),
                            MoleculeAtom(1, 44, 0 - 44, 0 - 44),
                            MoleculeAtom(1, 0 - 44, 44, 0 - 44),
                            MoleculeAtom(1, 0 - 44, 0 - 44, 44)>>,
                bonds |-> <<MoleculeBond(0, 1, 1, "covalent"),
                            MoleculeBond(0, 2, 1, "covalent"),
                            MoleculeBond(0, 3, 1, "covalent"),
                            MoleculeBond(0, 4, 1, "covalent")>>]
          [] name = "NH3" ->
               [atoms |-> <<MoleculeAtom(7, 0, 16, 0),
                            MoleculeAtom(1, 0 - 40, 0 - 20, 23),
                            MoleculeAtom(1, 40, 0 - 20, 23),
                            MoleculeAtom(1, 0, 0 - 20, 0 - 46)>>,
                bonds |-> <<MoleculeBond(0, 1, 1, "polar"),
                            MoleculeBond(0, 2, 1, "polar"),
                            MoleculeBond(0, 3, 1, "polar")>>]]

\* const state = { ... }
InitialState ==
    [mode |-> "atom", currentMolecule |-> "H2", elementZ |-> 6,
     cloudDensity |-> 10, nucleusScale |-> 10, showLabels |-> TRUE,
     glowEffects |-> TRUE, showIndividualOrbitals |-> TRUE,
     highlightSubshell |-> <<"all">>, colorScheme |-> "quantum",
     animationSpeed |-> 10]

\* null
NullRef == <<0 - 1, 0>>

\* An Object3D with the fields the assembler sets; kind names its class and
\* role, meshes counts its child meshes (each with a geometry and a material).
SceneObject(kind) ==
    [id |-> NullRef, kind |-> kind, position |-> ZeroVec, scale |-> 100,
     meshes |-> 0, text |-> <<>>, label |-> <<>>, z |-> 0, n |-> 0, l |-> 0,
     ml |-> 0, electronCount |-> 0, particleCount |-> 0, opacity |-> 100,
     order |-> 0, type |-> "none", seed |-> 0]

\* The transient resources an object holds itself: a Points has a geometry
\* and a material (its map is the shared dotTexture), a Sprite a material
\* whose map is the canvas texture created for it; a Group has none.
OwnResources(obj) ==
    IF obj.kind \in {"cloud", "bondCloud"} THEN {"geometry", "material"}
    ELSE IF obj.kind = "label" THEN {"material", "texture"}
    ELSE {}

\* Every transient resource created for obj: <<id, 0, r>> is held by obj
\* itself, <<id, j, r>> by its j-th child mesh.
Resources(obj) ==
    {<<obj.id, 0, r>> : r \in OwnResources(obj)}
        \cup {<<obj.id, j, r>> : j \in 1..obj.meshes, r \in {"geometry", "material"}}

\* disposeObject(obj): the resources it disposes
disposeObject(obj) ==
    {<<obj.id, 0, r>> : r \in OwnResources(obj) \cap {"geometry", "material"}}
        \cup {<<obj.id, j, r>> : j \in 1..obj.meshes, r \in {"geometry", "material"}}

\* Mutant: the loop removes and disposes only the first child.
ClearLoopOnce(children, disposed) ==
    IF Len(children) > 0
    THEN [children |-> Tail(children),
          disposed |-> disposed \cup disposeObject(Head(children))]
    ELSE [children |-> children, disposed |-> disposed]

\* while (atomGroup.children.length > 0) { remove children[0]; dispose it }
RECURSIVE ClearLoop(_, _)
ClearLoop(children, disposed) ==
    IF Len(children) > 0
    THEN ClearLoop(Tail(children), disposed \cup disposeObject(Head(children)))
    ELSE [children |-> children, disposed |-> disposed]

\* buildNucleus(protons, neutrons, scheme) under state.glowEffects, scaled
SceneNucleus(element, st, scale, position) ==
    [SceneObject("nucleus") EXCEPT
        !.z = element.z,
        !.meshes = Len(NucleusChildren(InitialParticles(element.z, element.neutrons),
                                       st.colorScheme, st.glowEffects)),
        !.scale = scale,
        !.position = position]

\* createLabel(text, position, color)
createLabel(text, position) ==
    [SceneObject("label") EXCEPT !.text = text, !.position = position]

\* Mutant: the particle count follows the draws of the sampler.
buildOrbitalCloudBySamples(n, l, ml, electronCount, densityMultiplier, seed) ==
    [SceneObject("cloud") EXCEPT
        !.label = SubshellLabel(n, l), !.n = n, !.l = l, !.ml = ml,
        !.electronCount = electronCount,
        !.particleCount =
            (electronCount * 5000 * densityMultiplier + 500) \div 1000 - seed,
        !.opacity = 85,
        !.seed = seed]

\* buildOrbitalCloud(n, l, ml, electronCount, densityMultiplier) with
\* densityMultiplier in thousandths: particleCount = Math.round(...), the
\* buffers have particleCount entries, userData carries the tags.
buildOrbitalCloud(n, l, ml, electronCount, densityMultiplier, seed) ==
    [SceneObject("cloud") EXCEPT
        !.label = SubshellLabel(n, l), !.n = n, !.l = l, !.ml = ml,
        !.electronCount = electronCount,
        !.particleCount =
            (electronCount * 5000 * densityMultiplier + 500) \div 1000,
        !.opacity = 85,
        !.seed = seed]

\* Mutant: every orbital of the subshell takes all the electrons left.
RECURSIVE OrbitalLoopNoPauli(_, _, _, _)
OrbitalLoopNoPauli(ml, l, electronsLeft, acc) ==
    IF ml > l \/ electronsLeft <= 0 THEN acc
    ELSE OrbitalLoopNoPauli(ml + 1, l, 0,
             Append(acc, [ml |-> ml, eInThis |-> electronsLeft]))

\* for (let ml = -sub.l; ml <= sub.l; ml++) {
\*     const eInThis = Math.min(electronsLeft, 2);
\*     if (eInThis <= 0) break;
\*     electronsLeft -= eInThis; ... }
RECURSIVE OrbitalLoop(_, _, _, _)
OrbitalLoop(ml, l, electronsLeft, acc) ==
    IF ml > l \/ Min(electronsLeft, 2) <= 0 THEN acc
    ELSE OrbitalLoop(ml + 1, l, electronsLeft - Min(electronsLeft, 2),
             Append(acc, [ml |-> ml, eInThis |-> Min(electronsLeft, 2)]))

\* updateEnergyDiagram: eInBox of the boxes m = 0 .. numOrbitals - 1
RECURSIVE EnergyBoxes(_, _, _, _)
EnergyBoxes(m, numOrbitals, electronsLeft, acc) ==
    IF m >= numOrbitals THEN acc
    ELSE EnergyBoxes(m + 1, numOrbitals, electronsLeft - Min(electronsLeft, 2),
             Append(acc, Min(electronsLeft, 2)))

updateEnergyDiagram(config) ==
    [i \in 1..Len(config) |->
        EnergyBoxes(0, 2 * config[i].l + 1, config[i].electrons, <<>>)]

\* The clouds of one subshell, in the order they are added.
SubshellClouds(sub, densityMultiplier, opacity, position, seed) ==
    LET orbitals == OrbitalLoop(0 - sub.l, sub.l, sub.electrons, <<>>)
    IN [i \in 1..Len(orbitals) |->
          [buildOrbitalCloud(sub.n, sub.l, orbitals[i].ml, orbitals[i].eInThis,
                             densityMultiplier, seed)
              EXCEPT !.opacity = opacity, !.position = position]]

\* labelPos of a subshell label is fixed by sub.n and sub.l; it is kept as
\* the pair itself.
SubshellLabelPosition(sub) == Vec(sub.n, sub.l, 0)

\* Mutant: without state.showIndividualOrbitals a subshell gets one cloud
\* holding all its electrons.
RECURSIVE AtomSubshellsCombined(_, _, _)
AtomSubshellsCombined(config, st, seed) ==
    IF Len(config) = 0 THEN <<>>
    ELSE LET sub == Head(config)
             isHighlighted == st.highlightSubshell = <<"all">>
                                 \/ st.highlightSubshell = sub.label
             densityMult == st.cloudDensity * (IF isHighlighted THEN 100 ELSE 15)
             clouds == IF st.showIndividualOrbitals
                       THEN SubshellClouds(sub, densityMult,
                                IF isHighlighted THEN 85 ELSE 15, ZeroVec, seed)
                       ELSE <<[buildOrbitalCloud(sub.n, sub.l, 0, sub.electrons,
                                                 densityMult, seed)
                                 EXCEPT !.opacity = IF isHighlighted THEN 85 ELSE 15]>>
             labels == IF st.showLabels /\ isHighlighted
                       THEN <<createLabel(sub.label \o SuperscriptOf(sub.electrons),
                                          SubshellLabelPosition(sub))>>
                       ELSE <<>>
         IN clouds \o labels \o AtomSubshellsCombined(Tail(config), st, seed)

\* rebuildAtom, config.forEach(sub => ...): clouds and label per subshell.
\* Both branches on state.showIndividualOrbitals run the same loop.
RECURSIVE AtomSubshells(_, _, _)
AtomSubshells(config, st, seed) ==
    IF Len(config) = 0 THEN <<>>
    ELSE LET sub == Head(config)
             isHighlighted == st.highlightSubshell = <<"all">>
                                 \/ st.highlightSubshell = sub.label
             densityMult == st.cloudDensity * (IF isHighlighted THEN 100 ELSE 15)
             clouds == IF st.showIndividualOrbitals
                       THEN SubshellClouds(sub, densityMult,
                                IF isHighlighted THEN 85 ELSE 15, ZeroVec, seed)
                       ELSE SubshellClouds(sub, densityMult,
                                IF isHighlighted THEN 85 ELSE 15, ZeroVec, seed)
             labels == IF st.showLabels /\ isHighlighted
                       THEN <<createLabel(sub.label \o SuperscriptOf(sub.electrons),
                                          SubshellLabelPosition(sub))>>
                       ELSE <<>>
         IN clouds \o labels \o AtomSubshells(Tail(config), st, seed)

\* rebuildMolecule, config.forEach(sub => ...) of one atom
RECURSIVE MoleculeSubshells(_, _, _, _)
MoleculeSubshells(config, st, offset, seed) ==
    IF Len(config) = 0 THEN <<>>
    ELSE SubshellClouds(Head(config), st.cloudDensity * 40, 35, offset, seed)
             \o MoleculeSubshells(Tail(config), st, offset, seed)

\* rebuildMolecule, mol.atoms.forEach: nucleus, clouds and label per atom;
\* an atom whose z is not in ELEMENTS is skipped.
RECURSIVE MoleculeAtoms(_, _, _)
MoleculeAtoms(atoms, st, seed) ==
    IF Len(atoms) = 0 THEN <<>>
    ELSE LET atom == Head(atoms)
         IN (IF atom.z \notin DOMAIN ELEMENTS THEN <<>>
             ELSE <<SceneNucleus(ELEMENTS[atom.z], st, st.nucleusScale * 7, atom.pos)>>
                  \o MoleculeSubshells(getElectronConfiguration(atom.z), st,
                                       atom.pos, seed)
                  \o (IF st.showLabels
                      THEN <<createLabel(<<ELEMENTS[atom.z].symbol>>,
                                         AddVectors(atom.pos, Vec(0, 0 - 30, 0)))>>
                      ELSE <<>>))
            \o MoleculeAtoms(Tail(atoms), st, seed)

\* Mutant: only multiple bonds get a shared cloud.
BondObjectsMultipleOnly(mol, bond, st, seed) ==
    LET posA == mol.atoms[bond.from + 1].pos
        posB == mol.atoms[bond.to + 1].pos
    IN <<[SceneObject("bond") EXCEPT
            !.meshes = Len(BondChildren(posA, posB, bond.order, bond.type)),
            !.order = bond.order, !.type = bond.type]>>
       \o (IF bond.order = 1 THEN <<>>
           ELSE <<[SceneObject("bondCloud") EXCEPT
                     !.label = <<"bond">>, !.n = 1,
                     !.particleCount =
                         BondCloudParticleCount(bond.order, st.cloudDensity * 200),
                     !.seed = seed]>>)

\* rebuildMolecule, mol.bonds.forEach: the bond group of buildBondCylinder and,
\* unless buildBondCloud returns null, its cloud (pushed to orbitalClouds
\* with label 'bond', n 1, l 0, ml 0).
BondObjects(mol, bond, st, seed) ==
    LET posA == mol.atoms[bond.from + 1].pos
        posB == mol.atoms[bond.to + 1].pos
    IN <<[SceneObject("bond") EXCEPT
            !.meshes = Len(BondChildren(posA, posB, bond.order, bond.type)),
            !.order = bond.order, !.type = bond.type]>>
       \o (IF BondCloudDegenerate(SubVectors(posB, posA), 20) THEN <<>>
           ELSE <<[SceneObject("bondCloud") EXCEPT
                     !.label = <<"bond">>, !.n = 1,
                     !.particleCount =
                         BondCloudParticleCount(bond.order, st.cloudDensity * 200),
                     !.seed = seed]>>)

RECURSIVE MoleculeBonds(_, _, _, _)
MoleculeBonds(mol, bonds, st, seed) ==
    IF Len(bonds) = 0 THEN <<>>
    ELSE BondObjects(mol, Head(bonds), st, seed)
             \o MoleculeBonds(mol, Tail(bonds), st, seed)

\* atomGroup.add(...) in order: the objects get their identities.
Added(gen, objs) == [k \in 1..Len(objs) |-> [objs[k] EXCEPT !.id = <<gen, k>>]]

IsCloud(obj) == obj.kind \in {"cloud", "bondCloud"}
IsLabel(obj) == obj.kind = "label"

\* orbitalClouds.push({ points, basePositions, label, n, l, ml })
CloudHandle(obj) ==
    [points |-> obj.id, label |-> obj.label, n |-> obj.n, l |-> obj.l, ml |-> obj.ml]

CloudHandles(children) ==
    LET clouds == SelectSeq(children, IsCloud)
    IN [k \in 1..Len(clouds) |-> CloudHandle(clouds[k])]

LabelHandles(children) ==
    LET labels == SelectSeq(children, IsLabel)
    IN [k \in 1..Len(labels) |-> labels[k].id]

\* The module-level bindings a rebuild reads and writes.
Scene ==
    [state |-> state, atomGroup |-> atomGroup, nucleusGroup |-> nucleusGroup,
     orbitalClouds |-> orbitalClouds, labelSprites |-> labelSprites,
     subshellButtons |-> subshellButtons, energyDiagram |-> energyDiagram,
     threw |-> FALSE, leaked |-> {}]

\* Every transient resource of the children
RECURSIVE AllResources(_)
AllResources(children) ==
    IF Len(children) = 0 THEN {}
    ELSE Resources(Head(children)) \cup AllResources(Tail(children))

\* rebuildAtom() with state st.  element.z throws a TypeError when
\* ELEMENTS[state.elementZ] is undefined: the scene is already cleared and
\* the two arrays reset, the rest is left as it was.
rebuildAtom(sc, st, gen, seed) ==
    LET cleared == ClearLoop(sc.atomGroup, {})
        lost == AllResources(sc.atomGroup) \ cleared.disposed
        config == getElectronConfiguration(st.elementZ)
    IN IF st.elementZ \notin DOMAIN ELEMENTS
       THEN [sc EXCEPT !.state = st, !.atomGroup = cleared.children,
                       !.orbitalClouds = <<>>, !.labelSprites = <<>>,
                       !.threw = TRUE, !.leaked = lost]
       ELSE LET element == ELEMENTS[st.elementZ]
                added == Added(gen,
                    <<SceneNucleus(element, st, st.nucleusScale * 10, ZeroVec)>>
                    \o (IF st.showLabels
                        THEN <<createLabel(
                                 DecimalDigits(element.z) \o <<"p", " ", " ">>
                                     \o DecimalDigits(element.neutrons) \o <<"n">>,
                                 Vec(0, 0 - 32 * st.nucleusScale, 0))>>
                        ELSE <<>>)
                    \o AtomSubshells(config, st, seed))
            IN [state |-> st,
                atomGroup |-> cleared.children \o added,
                nucleusGroup |-> added[1].id,
                orbitalClouds |-> CloudHandles(added),
                labelSprites |-> LabelHandles(added),
                subshellButtons |-> [i \in 1..Len(config) |-> config[i].label],
                energyDiagram |-> updateEnergyDiagram(config),
                threw |-> FALSE,
                leaked |-> lost]

\* rebuildMolecule() with state st; nucleusGroup is not assigned.
rebuildMolecule(sc, st, gen, seed) ==
    LET cleared == ClearLoop(sc.atomGroup, {})
        lost == AllResources(sc.atomGroup) \ cleared.disposed
    IN IF st.currentMolecule \notin DOMAIN MOLECULES
       THEN [sc EXCEPT !.state = st, !.atomGroup = cleared.children,
                       !.orbitalClouds = <<>>, !.labelSprites = <<>>,
                       !.leaked = lost]
       ELSE LET mol == MOLECULES[st.currentMolecule]
                added == Added(gen, MoleculeAtoms(mol.atoms, st, seed)
                                    \o MoleculeBonds(mol, mol.bonds, st, seed))
            IN [sc EXCEPT !.state = st,
                          !.atomGroup = cleared.children \o added,
                          !.orbitalClouds = CloudHandles(added),
                          !.labelSprites = LabelHandles(added),
                          !.leaked = lost]

\* Mutant: a frame resets the highlight.
animateResettingHighlight(sc) ==
    [state |-> [sc.state EXCEPT !.highlightSubshell = <<"all">>],
     atomGroup |-> sc.atomGroup,
     touched |-> {}]

\* animate(): one frame, taken where the opacity pulse is at its base value.
\* It rotates nucleusGroup, rewrites the positions and the opacity of every
\* entry of orbitalClouds and turns every label sprite to the camera.
animate(sc) ==
    LET opacityOf(cloud) ==
            IF sc.state.highlightSubshell = <<"all">>
                  \/ sc.state.highlightSubshell = cloud.label
            THEN 70 ELSE 12
        handleOf(id) == CHOOSE c \in {sc.orbitalClouds[k] : k \in 1..Len(sc.orbitalClouds)} :
                            c.points = id
        cloudIds == {sc.orbitalClouds[k].points : k \in 1..Len(sc.orbitalClouds)}
    IN [state |-> sc.state,
        atomGroup |->
            [k \in 1..Len(sc.atomGroup) |->
                IF sc.atomGroup[k].id \in cloudIds
                THEN [sc.atomGroup[k] EXCEPT !.opacity = opacityOf(handleOf(sc.atomGroup[k].id))]
                ELSE sc.atomGroup[k]],
        touched |-> (IF sc.nucleusGroup # NullRef THEN {sc.nucleusGroup} ELSE {})
                        \cup cloudIds
                        \cup {sc.labelSprites[k] : k \in 1..Len(sc.labelSprites)}]

\* Events handled after the script has run, at most MaxEvents per session.
MaxEvents == 2

\* The atomic numbers offered to the element selector (37 is not in
\* ELEMENTS), and the values offered to the other controls.
ElementChoices == {1, 7, 24, 37}
DensityChoices == {5, 10}
SpeedChoices == {10, 20}
NucleusSizeChoices == {10, 15}
SchemeChoices == {"quantum", "neon"}

\* (label, n, l, ml, electronCount, particleCount) of the orbital clouds
CloudTags(children) ==
    LET clouds == SelectSeq(children, IsCloud)
    IN [k \in 1..Len(clouds) |->
          <<clouds[k].label, clouds[k].n, clouds[k].l, clouds[k].ml,
            clouds[k].electronCount, clouds[k].particleCount>>]

NoRepeat == [again |-> FALSE, previous |-> <<>>, sameDraws |-> TRUE]

SceneIdle ==
    /\ state = InitialState
    /\ atomGroup = <<>>
    /\ nucleusGroup = NullRef
    /\ orbitalClouds = <<>>
    /\ labelSprites = <<>>
    /\ subshellButtons = <<>>
    /\ energyDiagram = <<>>
    /\ sceneGen = 0
    /\ leaked = {}
    /\ assigned = InitialState
    /\ built = [by |-> "none", from |-> InitialState, seed |-> 0, completed |-> FALSE]
    /\ lastCall = [handler |-> "none", threw |-> FALSE]
    /\ repeat = NoRepeat
    /\ touched = {}
    /\ events = 0

\* The module as loaded, before the initial rebuildAtom().
SceneInit == SceneIdle

\* A callback that has assigned st to state and calls which (rebuildAtom or
\* rebuildMolecule).  leaked holds what the previous scene's objects still
\* held undisposed when the first new object was created; repeat keeps the
\* clouds of the scene before, when this is the second of two rebuildAtom
\* calls in a row from the same state.
Rebuilding(handler, st, which) ==
    \E seed \in 0..1 :
        LET gen == CHOOSE g \in 0..2 :
                       g # sceneGen /\ (nucleusGroup = NullRef \/ g # nucleusGroup[1])
        IN \E res \in {IF which = "rebuildMolecule"
                       THEN rebuildMolecule(Scene, st, gen, seed)
                       ELSE rebuildAtom(Scene, st, gen, seed)} :
           /\ state' = res.state
           /\ assigned' = st
           /\ atomGroup' = res.atomGroup
           /\ nucleusGroup' = res.nucleusGroup
           /\ orbitalClouds' = res.orbitalClouds
           /\ labelSprites' = res.labelSprites
           /\ subshellButtons' = res.subshellButtons
           /\ energyDiagram' = res.energyDiagram
           /\ sceneGen' = gen
           /\ leaked' = {<<h[2] > 0, h[3]>> : h \in res.leaked}
           /\ built' = [by |-> which, from |-> st, seed |-> seed,
                        completed |-> ~res.threw]
           /\ lastCall' = [handler |-> handler, threw |-> res.threw]
           /\ repeat' = IF /\ which = "rebuildAtom"
                           /\ built.by = "rebuildAtom"
                           /\ built.completed
                           /\ ~res.threw
                           /\ built.from = st
                        THEN [again |-> TRUE,
                              previous |-> CloudTags(atomGroup),
                              sameDraws |-> seed = built.seed]
                        ELSE NoRepeat
           /\ touched' = {}

\* rebuild()
RebuildOf(st) == IF st.mode = "molecule" THEN "rebuildMolecule" ELSE "rebuildAtom"

\* A callback that assigns st to state and rebuilds nothing.
NotRebuilding(handler, st, children) ==
    /\ state' = st
    /\ assigned' = st
    /\ atomGroup' = children
    /\ lastCall' = [handler |-> handler, threw |-> FALSE]
    /\ touched' = {}
    /\ UNCHANGED <<nucleusGroup, orbitalClouds, labelSprites, subshellButtons,
                   energyDiagram, sceneGen, leaked, built, repeat>>

Loaded == built.by # "none" /\ events < MaxEvents

\* rebuildAtom(); at the end of the script
SceneBoot ==
    /\ built.by = "none"
    /\ Rebuilding("init", state, "rebuildAtom")
    /\ UNCHANGED events

\* .mode-btn click
ModeButton ==
    /\ Loaded
    /\ \E mode \in {"atom", "molecule"} :
          Rebuilding("mode-btn", [state EXCEPT !.mode = mode],
                     RebuildOf([state EXCEPT !.mode = mode]))
    /\ events' = events + 1

\* #molecule-select change: rebuildMolecule() whatever state.mode is
MoleculeSelect ==
    /\ Loaded
    /\ \E name \in DOMAIN MOLECULES \ {state.currentMolecule} :
          Rebuilding("molecule-select", [state EXCEPT !.currentMolecule = name],
                     "rebuildMolecule")
    /\ events' = events + 1

\* Mutant: the selector leaves the highlight as it is.
ElementSelectKeepingHighlight ==
    /\ Loaded
    /\ \E z \in ElementChoices \ {state.elementZ} :
          Rebuilding("element-select", [state EXCEPT !.elementZ = z], "rebuildAtom")
    /\ events' = events + 1

\* #element-select change: rebuildAtom() whatever state.mode is
ElementSelect ==
    /\ Loaded
    /\ \E z \in ElementChoices \ {state.elementZ} :
          Rebuilding("element-select",
                     [state EXCEPT !.elementZ = z, !.highlightSubshell = <<"all">>],
                     "rebuildAtom")
    /\ events' = events + 1

\* #cloud-density input
CloudDensityInput ==
    /\ Loaded
    /\ \E v \in DensityChoices \ {state.cloudDensity} :
          Rebuilding("cloud-density", [state EXCEPT !.cloudDensity = v],
                     RebuildOf(state))
    /\ events' = events + 1

\* #animation-speed input
AnimationSpeedInput ==
    /\ Loaded
    /\ \E v \in SpeedChoices \ {state.animationSpeed} :
          NotRebuilding("animation-speed", [state EXCEPT !.animationSpeed = v],
                        atomGroup)
    /\ events' = events + 1

\* #nucleus-size input: if (nucleusGroup) nucleusGroup.scale.setScalar(...).
\* The object nucleusGroup refers to is rescaled whether or not it is still
\* a child of atomGroup.
NucleusSizeInput ==
    /\ Loaded
    /\ \E v \in NucleusSizeChoices \ {state.nucleusScale} :
          NotRebuilding("nucleus-size", [state EXCEPT !.nucleusScale = v],
              [k \in 1..Len(atomGroup) |->
                  IF nucleusGroup # NullRef /\ atomGroup[k].id = nucleusGroup
                  THEN [atomGroup[k] EXCEPT !.scale = v * 10]
                  ELSE atomGroup[k]])
    /\ events' = events + 1

\* #show-labels change
ShowLabelsChange ==
    /\ Loaded
    /\ Rebuilding("show-labels", [state EXCEPT !.showLabels = ~state.showLabels],
                  RebuildOf(state))
    /\ events' = events + 1

\* #glow-effects change
GlowEffectsChange ==
    /\ Loaded
    /\ Rebuilding("glow-effects", [state EXCEPT !.glowEffects = ~state.glowEffects],
                  RebuildOf(state))
    /\ events' = events + 1

\* #show-individual change
ShowIndividualChange ==
    /\ Loaded
    /\ Rebuilding("show-individual",
                  [state EXCEPT !.showIndividualOrbitals = ~state.showIndividualOrbitals],
                  RebuildOf(state))
    /\ events' = events + 1

\* .color-btn click
ColorButton ==
    /\ Loaded
    /\ \E scheme \in SchemeChoices :
          Rebuilding("color-btn", [state EXCEPT !.colorScheme = scheme],
                     RebuildOf(state))
    /\ events' = events + 1

\* #reset-view click
ResetView ==
    /\ Loaded
    /\ Rebuilding("reset-view", [state EXCEPT !.highlightSubshell = <<"all">>],
                  RebuildOf(state))
    /\ events' = events + 1

\* A button of updateSubshellButtons (those of the last rebuildAtom that
\* reached it): rebuildAtom() whatever state.mode is
SubshellButton ==
    /\ Loaded
    /\ \E label \in {<<"all">>} \cup {subshellButtons[k] : k \in 1..Len(subshellButtons)} :
          Rebuilding("subshell-btn", [state EXCEPT !.highlightSubshell = label],
                     "rebuildAtom")
    /\ events' = events + 1

\* One frame of animate()
AnimationFrame ==
    /\ Loaded
    /\ \E res \in {animate(Scene)} :
          /\ state' = res.state
          /\ atomGroup' = res.atomGroup
          /\ touched' = res.touched
    /\ assigned' = state
    /\ lastCall' = [handler |-> "animate", threw |-> FALSE]
    /\ events' = events + 1
    /\ UNCHANGED <<nucleusGroup, orbitalClouds, labelSprites, subshellButtons,
                   energyDiagram, sceneGen, leaked, built, repeat>>

----------------------------------------------------------------------------
(* The buffers of the clouds and the animation driver                       *)
(*                                                                         *)
(* A cloud is the entry pushed to orbitalClouds together with the buffers  *)
(* of its points: positions (the position attribute), basePositions and    *)
(* the opacity of its material.  Coordinates and opacities are integers in *)
(* units of 0.00001, angles in milliradians, sines in thousandths, the     *)
(* clock in tenths of a second, state.animationSpeed in tenths and         *)
(* state.cloudDensity in units of 1 / DensityDen, small enough for a cloud *)
(* to have a handful of points.  A Float32Array store rounds to the grid.  *)

DensityDen == 12500

\* Math.round(num / den) for num >= 0: the nearest integer, a tie upwards
MathRound(num, den) == (2 * num + den) \div (2 * den)

\* Mutant: the count is truncated.
CloudParticleCountTruncated(electronCount, densityMultiplier) ==
    (electronCount * 5000 * densityMultiplier) \div (DensityDen * 100)

\* buildOrbitalCloud: Math.round(electronCount * 5000 * densityMultiplier),
\* densityMultiplier in units of 1 / (100 * DensityDen)
CloudParticleCount(electronCount, densityMultiplier) ==
    MathRound(electronCount * 5000 * densityMultiplier, DensityDen * 100)

\* buildBondCloud: Math.round(order * 2000 * state.cloudDensity)
BondParticleCount(order, cloudDensity) ==
    MathRound(order * 2000 * cloudDensity, DensityDen)

\* Math.sin of an angle x >= 0 in milliradians, in thousandths: reduction
\* to one period, then 16 y (pi - y) / (5 pi^2 - 4 y (pi - y)) on [0, pi].
PiMilli == 3142
SinHalfPeriod(y) ==
    LET p == (y * (PiMilli - y)) \div 100
    IN (16000 * p) \div ((5 * PiMilli * PiMilli) \div 100 - 4 * p)
MathSin(x) ==
    LET y == x % (2 * PiMilli)
    IN IF y <= PiMilli THEN SinHalfPeriod(y) ELSE 0 - SinHalfPeriod(y - PiMilli)
MathCos(x) == MathSin(x + PiMilli \div 2)

\* A coordinate of the j-th entry the sampler returned for the draws seed.
SampleCoord(seed, j) == (((seed * 3 + j * 5) % 7) - 3) * 50000

\* posArray / basePos after the samples.forEach of buildOrbitalCloud and
\* after the particle loop of buildBondCloud: three entries per point.
FilledBuffer(particleCount, seed) ==
    [j \in 1..(3 * particleCount) |-> SampleCoord(seed, j - 1)]

Cloud(label, n, l, ml, electronCount, particleCount, opacity, seed) ==
    [label |-> label, n |-> n, l |-> l, ml |-> ml,
     electronCount |-> electronCount, particleCount |-> particleCount,
     positions |-> FilledBuffer(particleCount, seed),
     basePositions |-> FilledBuffer(particleCount, seed),
     opacity |-> opacity]

\* The clouds rebuildAtom builds for the subshell sub.
AtomClouds(sub, st, seed) ==
    LET isHighlighted == st.highlightSubshell = <<"all">>
                             \/ st.highlightSubshell = sub.label
        densityMult == st.cloudDensity * (IF isHighlighted THEN 100 ELSE 15)
        orbitals == OrbitalLoop(0 - sub.l, sub.l, sub.electrons, <<>>)
    IN [i \in 1..Len(orbitals) |->
          Cloud(sub.label, sub.n, sub.l, orbitals[i].ml, orbitals[i].eInThis,
                CloudParticleCount(orbitals[i].eInThis, densityMult),
                IF isHighlighted THEN 85000 ELSE 15000, seed)]

\* The clouds rebuildMolecule builds for the subshell sub of one atom and
\* for one bond of the given order.
MoleculeClouds(sub, order, st, seed) ==
    LET densityMult == st.cloudDensity * 40
        orbitals == OrbitalLoop(0 - sub.l, sub.l, sub.electrons, <<>>)
    IN [i \in 1..Len(orbitals) |->
          Cloud(sub.label, sub.n, sub.l, orbitals[i].ml, orbitals[i].eInThis,
                CloudParticleCount(orbitals[i].eInThis, densityMult),
                35000, seed)]
       \o <<Cloud(<<"bond">>, 1, 0, 0, order,
                  BondParticleCount(order, st.cloudDensity), 80000, seed)>>

\* phase = elapsed * speed * 0.8 + cloud.n * 1.3 + cloud.l * 0.7
CloudPhase(elapsed, speed, cloud) ==
    elapsed * speed * 8 + cloud.n * 1300 + cloud.l * 700

\* Mutant: a frame perturbs the positions of the frame before.
AnimatePositionsDrifting(positions, base, elapsed, speed, phase) ==
    [j \in 1..Len(positions) |->
        LET axis == (j - 1) % 3
            i == (j - 1) - axis
            jitter == IF axis = 0 THEN MathSin(elapsed * 230 + i * 1000)
                      ELSE IF axis = 1 THEN MathCos(elapsed * 170 + i * 1000)
                      ELSE MathSin(elapsed * 310 + (i + 1) * 1000)
        IN positions[j] + (positions[j] * 4 * MathSin(phase)) \div 100000
               + (3 * speed * jitter) \div 10]

\* The loop over positions of one cloud:
\*   breathe = 1.0 + Math.sin(phase) * 0.04; jitterScale = 0.03 * speed;
\*   positions[i]     = base[i]     * breathe + Math.sin(elapsed * 2.3 + i) * jitterScale
\*   positions[i + 1] = base[i + 1] * breathe + Math.cos(elapsed * 1.7 + i) * jitterScale
\*   positions[i + 2] = base[i + 2] * breathe + Math.sin(elapsed * 3.1 + i + 1) * jitterScale
AnimatePositions(positions, base, elapsed, speed, phase) ==
    [j \in 1..Len(positions) |->
        LET axis == (j - 1) % 3
            i == (j - 1) - axis
            jitter == IF axis = 0 THEN MathSin(elapsed * 230 + i * 1000)
                      ELSE IF axis = 1 THEN MathCos(elapsed * 170 + i * 1000)
                      ELSE MathSin(elapsed * 310 + (i + 1) * 1000)
        IN base[j] + (base[j] * 4 * MathSin(phase)) \div 100000
               + (3 * speed * jitter) \div 10]

\* Mutant: the pulse is ten times as wide.
CloudOpacityWide(highlightSubshell, label, phase) ==
    (IF highlightSubshell = <<"all">> \/ highlightSubshell = label
     THEN 70000 ELSE 12000) + 80 * MathSin(phase \div 2)

\* opacityBase + Math.sin(phase * 0.5) * 0.08
CloudOpacity(highlightSubshell, label, phase) ==
    (IF highlightSubshell = <<"all">> \/ highlightSubshell = label
     THEN 70000 ELSE 12000) + 8 * MathSin(phase \div 2)

\* orbitalClouds.forEach(cloud => ...) of animate at the clock value elapsed
AnimateClouds(clouds, st, elapsed) ==
    [k \in 1..Len(clouds) |->
        LET phase == CloudPhase(elapsed, st.animationSpeed, clouds[k])
        IN [clouds[k] EXCEPT
              !.positions = AnimatePositions(clouds[k].positions,
                                clouds[k].basePositions, elapsed,
                                st.animationSpeed, phase),
              !.opacity = CloudOpacity(st.highlightSubshell, clouds[k].label, phase)]]

MaxFrames == 3

\* The subshells, bond orders and state values a scene is built from.
FrameSubshells ==
    {[n |-> 1, l |-> 0, label |-> SubshellLabel(1, 0), electrons |-> 2],
     [n |-> 2, l |-> 1, label |-> SubshellLabel(2, 1), electrons |-> 3],
     [n |-> 3, l |-> 2, label |-> SubshellLabel(3, 2), electrons |-> 1]}
FrameDensities == {3, 6}
FrameHighlights == {<<"all">>, SubshellLabel(1, 0), SubshellLabel(2, 1)}
FrameSpeeds == {10, 25}
ClockDeltas == {1, 2}

FrameIdle ==
    /\ cbMode = "none"
    /\ cbState = [cloudDensity |-> 0, highlightSubshell |-> <<"all">>,
                  animationSpeed |-> 0]
    /\ cbClouds = <<>>
    /\ cbBuilt = <<>>
    /\ cbElapsed = 0
    /\ cbFrameSpeed = 0
    /\ cbFrames = 0
    /\ cbPc = "off"

\* The fields of state the builders and animate read, before a rebuild.
FrameInit ==
    /\ cbMode \in {"atom", "molecule"}
    /\ \E d \in FrameDensities, h \in FrameHighlights :
          cbState = [cloudDensity |-> d, highlightSubshell |-> h,
                     animationSpeed |-> 10]
    /\ cbClouds = <<>>
    /\ cbBuilt = <<>>
    /\ cbElapsed = 0
    /\ cbFrameSpeed = 0
    /\ cbFrames = 0
    /\ cbPc = "rebuild"

\* rebuildAtom / rebuildMolecule: orbitalClouds = [] and the pushes.
FrameBuild ==
    /\ cbPc = "rebuild"
    /\ \E sub \in FrameSubshells, order \in {1, 3}, seed \in 0..1 :
          cbClouds' = IF cbMode = "atom" THEN AtomClouds(sub, cbState, seed)
                      ELSE MoleculeClouds(sub, order, cbState, seed)
    /\ cbBuilt' = [k \in 1..Len(cbClouds') |-> cbClouds'[k].basePositions]
    /\ cbPc' = "built"
    /\ UNCHANGED <<cbMode, cbState, cbElapsed, cbFrameSpeed, cbFrames>>

\* #animation-speed input between two frames
FrameSpeedInput ==
    /\ cbPc \in {"built", "frame"}
    /\ \E v \in FrameSpeeds \ {cbState.animationSpeed} :
          cbState' = [cbState EXCEPT !.animationSpeed = v]
    /\ UNCHANGED <<cbMode, cbClouds, cbBuilt, cbElapsed, cbFrameSpeed, cbFrames, cbPc>>

\* animate(): clock.getElapsedTime() has advanced, the clouds are redrawn.
FrameAnimate ==
    /\ cbPc \in {"built", "frame"}
    /\ cbFrames < MaxFrames
    /\ \E delta \in ClockDeltas :
          /\ cbElapsed' = cbElapsed + delta
          /\ cbClouds' = AnimateClouds(cbClouds, cbState, cbElapsed + delta)
    /\ cbFrameSpeed' = cbState.animationSpeed
    /\ cbFrames' = cbFrames + 1
    /\ cbPc' = "frame"
    /\ UNCHANGED <<cbMode, cbState, cbBuilt>>

----------------------------------------------------------------------------
(* The radial nodes seen on the scan grid of sampleRadius                   *)
(*                                                                         *)
(* The scan of sampleRadius visits rho = (i / 200) * rhoMax, i = 0..200.   *)
(* Along it the sign of Rnl is followed: a node lies between two grid      *)
(* points where Rnl has opposite signs, or on a grid point where it is 0.  *)

\* The sign of a Number
FSign(a) == IF a.m > 0 THEN 1 ELSE IF a.m < 0 THEN 0 - 1 ELSE 0

NodeIdle ==
    /\ ndN = 0
    /\ ndL = 0
    /\ ndI = 0
    /\ ndSign = 0
    /\ ndNodes = 0
    /\ ndPc = "off"

\* A subshell of the Aufbau table
NodeInit ==
    /\ \E k \in 1..Len(AufbauPairs) :
          /\ ndN = AufbauPairs[k][1]
          /\ ndL = AufbauPairs[k][2]
    /\ ndI = 1
    /\ ndSign = 0
    /\ ndNodes = 0
    /\ ndPc = "scan"

\* The grid point i > 0: the sign of Rnl in radialProbability(n, l, rho)
NodeScanStep ==
    /\ ndPc = "scan"
    /\ ndI <= ScanPoints
    /\ \E s \in {FSign(RadialRnl(ndN, ndL, ScanRho(ndN, ndI)))} :
          /\ ndSign' = IF s = 0 THEN ndSign ELSE s
          /\ ndNodes' = IF s # 0 /\ ndSign # 0 /\ s # ndSign
                        THEN ndNodes + 1 ELSE ndNodes
    /\ ndI' = ndI + 1
    /\ UNCHANGED <<ndN, ndL, ndPc>>

\* i = 200 was rho = rhoMax
NodeScanEnd ==
    /\ ndPc = "scan"
    /\ ndI > ScanPoints
    /\ ndPc' = "scanned"
    /\ UNCHANGED <<ndN, ndL, ndI, ndSign, ndNodes>>

----------------------------------------------------------------------------
(* The info tooltip of the click handler                                    *)
(*                                                                         *)
(* Time is in milliseconds.  ttTimers holds the due times of the pending   *)
(* setTimeout callbacks; a callback runs once its time has come, before    *)
(* the clock moves on.  ttShownAt is the time of the last click that       *)
(* showed the tooltip (-1 before the first), ttMissed whether a click has  *)
(* missed every object since.                                              *)

TooltipDelay == 4000
ClockStep == 1000
MaxTicks == 8
MaxClicks == 3

\* What intersects[0].object is: an object with info text, an object
\* without (a bond cloud, a label), or nothing.
ClickTargets == {"nucleon", "glow", "orbitalCloud", "bond", "bondCloud", "label", "none"}

\* if (info): one of the four userData branches has set the text
Inspectable(target) == target \in {"nucleon", "glow", "orbitalCloud", "bond"}

TipIdle ==
    /\ ttNow = 0
    /\ ttTicks = 0
    /\ ttHidden = TRUE
    /\ ttTimers = {}
    /\ ttShownAt = 0 - 1
    /\ ttMissed = FALSE
    /\ ttClicks = 0
    /\ ttPc = "off"

TipInit ==
    /\ ttNow = 0
    /\ ttTicks = 0
    /\ ttHidden = TRUE
    /\ ttTimers = {}
    /\ ttShownAt = 0 - 1
    /\ ttMissed = FALSE
    /\ ttClicks = 0
    /\ ttPc = "listening"

\* A timer whose time has come
TimerDue == \E due \in ttTimers : due <= ttNow

\* The click listener of renderer.domElement
TipClick ==
    /\ ttPc = "listening"
    /\ ttClicks < MaxClicks
    /\ \E target \in ClickTargets :
          IF target = "none"
          THEN /\ ttHidden' = TRUE
               /\ ttMissed' = TRUE
               /\ UNCHANGED <<ttTimers, ttShownAt>>
          ELSE IF Inspectable(target)
          THEN /\ ttHidden' = FALSE
               /\ ttTimers' = ttTimers \cup {ttNow + TooltipDelay}
               /\ ttShownAt' = ttNow
               /\ ttMissed' = FALSE
          ELSE UNCHANGED <<ttHidden, ttTimers, ttShownAt, ttMissed>>
    /\ ttClicks' = ttClicks + 1
    /\ UNCHANGED <<ttNow, ttTicks, ttPc>>

\* () => tooltip.classList.add('hidden')
TipTimeout ==
    /\ ttPc = "listening"
    /\ \E due \in ttTimers :
          /\ due <= ttNow
          /\ ttTimers' = ttTimers \ {due}
    /\ ttHidden' = TRUE
    /\ UNCHANGED <<ttNow, ttTicks, ttShownAt, ttMissed, ttClicks, ttPc>>

\* Time passes while no callback is due.
TipTick ==
    /\ ttPc = "listening"
    /\ ttTicks < MaxTicks
    /\ ~TimerDue
    /\ ttNow' = ttNow + ClockStep
    /\ ttTicks' = ttTicks + 1
    /\ UNCHANGED <<ttHidden, ttTimers, ttShownAt, ttMissed, ttClicks, ttPc>>

----------------------------------------------------------------------------
(* The periodic-table page: search and category filtering                  *)
(*                                                                         *)
(* Strings are sequences of one-character strings.  pgValue is             *)
(* searchInput.value, pgActive the variable activeCategory, pgLegend the   *)
(* legend items carrying the class 'active', pgDimmed[i] whether tile i    *)
(* carries the class 'dimmed'.  pgLast records the last handler that ran.  *)

MaxPageEvents == 3

UpperCase == <<"A", "B", "C", "D", "E", "F", "G", "H", "I", "J", "K", "L", "M", "N", "O", "P", "Q", "R", "S", "T", "U", "V", "W", "X", "Y", "Z">>
LowerCase == <<"a", "b", "c", "d", "e", "f", "g", "h", "i", "j", "k", "l", "m", "n", "o", "p", "q", "r", "s", "t", "u", "v", "w", "x", "y", "z">>
DigitGlyphs == <<"0", "1", "2", "3", "4", "5", "6", "7", "8", "9">>

\* activeCategory = null
NoCategory == "null"
\* parseInt of a string without a leading digit
NotANumber == 0 - 1

\* String.prototype.toLowerCase, on the letters A-Z
LowerChar(c) ==
    IF \E i \in 1..Len(UpperCase) : UpperCase[i] = c
    THEN LowerCase[CHOOSE i \in 1..Len(UpperCase) : UpperCase[i] = c]
    ELSE c

toLowerCase(s) == [i \in 1..Len(s) |-> LowerChar(s[i])]

\* String.prototype.trim: white space at both ends is dropped
RECURSIVE trimStart(_)
trimStart(s) ==
    IF s # <<>> /\ Head(s) = " " THEN trimStart(Tail(s)) ELSE s

RECURSIVE trimEnd(_)
trimEnd(s) ==
    IF s # <<>> /\ s[Len(s)] = " " THEN trimEnd(SubSeq(s, 1, Len(s) - 1)) ELSE s

trim(s) == trimEnd(trimStart(s))

\* String.prototype.includes: part occurs in s as a substring
includes(s, part) ==
    \E i \in 0..(Len(s) - Len(part)) : SubSeq(s, i + 1, i + Len(part)) = part

\* Number.prototype.toString, base 10
RECURSIVE toString(_)
toString(z) ==
    IF z = NotANumber THEN <<"N", "a", "N">>
    ELSE IF z < 10 THEN <<DigitGlyphs[z + 1]>>
    ELSE Append(toString(z \div 10), DigitGlyphs[(z % 10) + 1])

DigitValue(c) == (CHOOSE i \in 1..10 : DigitGlyphs[i] = c) - 1

IsDigit(c) == \E i \in 1..10 : DigitGlyphs[i] = c

\* parseInt: leading white space is skipped, then the leading digits are read
RECURSIVE parseDigits(_, _)
parseDigits(s, acc) ==
    IF s # <<>> /\ IsDigit(Head(s))
    THEN parseDigits(Tail(s), acc * 10 + DigitValue(Head(s)))
    ELSE acc

parseInt(s) ==
    LET t == trimStart(s)
    IN IF t # <<>> /\ IsDigit(Head(t)) THEN parseDigits(t, 0) ELSE NotANumber

\* A sample of ALL_ELEMENTS, in grid order
PageElements ==
    << [z |-> 1, symbol |-> <<"H">>, name |-> <<"H", "y", "d", "r", "o", "g", "e", "n">>, category |-> "nonmetal"],
       [z |-> 2, symbol |-> <<"H", "e">>, name |-> <<"H", "e", "l", "i", "u", "m">>, category |-> "noble-gas"],
       [z |-> 3, symbol |-> <<"L", "i">>, name |-> <<"L", "i", "t", "h", "i", "u", "m">>, category |-> "alkali-metal"],
       [z |-> 10, symbol |-> <<"N", "e">>, name |-> <<"N", "e", "o", "n">>, category |-> "noble-gas"],
       [z |-> 11, symbol |-> <<"N", "a">>, name |-> <<"S", "o", "d", "i", "u", "m">>, category |-> "alkali-metal"] >>

\* The keys of ELEMENT_CATEGORIES that the sample uses, and one it does not
CategoryKeys == {"nonmetal", "noble-gas", "alkali-metal", "halogen"}

\* createTile: the data attributes of the tile of el
createTile(el) ==
    [z |-> toString(el.z), symbol |-> el.symbol, name |-> el.name,
     category |-> el.category]

\* buildGrid: document.querySelectorAll('.element-tile[data-z]')
PageTiles == [i \in 1..Len(PageElements) |-> createTile(PageElements[i])]

\* What the user may leave in the search box
SearchTexts ==
    { <<>>,
     <<" ">>,
     <<"h">>,
     <<"H", "e">>,
     <<" ", "h", "e", " ">>,
     <<"1">>,
     <<"1", "0">>,
     <<"0", "1">>,
     <<"o", "n">>,
     <<"x">>,
     <<"N", "E">>,
     <<"l", "i", " ">> }

PageKeys == {"/", "Escape", "a"}

\* Mutant: the category filter is not applied.
applyFiltersSearchOnly(value, activeCategory) ==
    LET query == toLowerCase(trim(value))
    IN [i \in 1..Len(PageTiles) |->
          LET tile == PageTiles[i]
              z == parseInt(tile.z)
              symbol == toLowerCase(tile.symbol)
              name == toLowerCase(tile.name)
              matchSearch == IF query # <<>>
                             THEN \/ includes(symbol, query)
                                  \/ includes(name, query)
                                  \/ toString(z) = query
                             ELSE TRUE
          IN ~matchSearch]

\* applyFilters: the class 'dimmed' of every tile, from the text of the
\* search box and the active category
applyFilters(value, activeCategory) ==
    LET query == toLowerCase(trim(value))
    IN [i \in 1..Len(PageTiles) |->
          LET tile == PageTiles[i]
              z == parseInt(tile.z)
              symbol == toLowerCase(tile.symbol)
              name == toLowerCase(tile.name)
              category == tile.category
              matchSearch == IF query # <<>>
                             THEN \/ includes(symbol, query)
                                  \/ includes(name, query)
                                  \/ toString(z) = query
                             ELSE TRUE
              matchCategory == IF activeCategory # NoCategory
                               THEN category = activeCategory
                               ELSE TRUE
          IN ~(matchSearch /\ matchCategory)]

PageIdle ==
    /\ pgValue = <<>>
    /\ pgFocused = FALSE
    /\ pgActive = NoCategory
    /\ pgLegend = {"All"}
    /\ pgDimmed = [i \in 1..Len(PageTiles) |-> FALSE]
    /\ pgLast = [handler |-> "none", key |-> "", before |-> NoCategory]
    /\ pgEvents = 0
    /\ pgPc = "off"

\* buildLegend(); buildGrid(): All is active, no tile is dimmed
PageInit ==
    /\ pgValue = <<>>
    /\ pgFocused = FALSE
    /\ pgActive = NoCategory
    /\ pgLegend = {"All"}
    /\ pgDimmed = [i \in 1..Len(PageTiles) |-> FALSE]
    /\ pgLast = [handler |-> "none", key |-> "", before |-> NoCategory]
    /\ pgEvents = 0
    /\ pgPc = "listening"

\* searchInput 'input' listener: the user has edited the text
SearchInput ==
    /\ pgPc = "listening"
    /\ pgEvents < MaxPageEvents
    /\ \E value \in SearchTexts :
          /\ value # pgValue
          /\ pgValue' = value
          /\ pgDimmed' = applyFilters(value, pgActive)
    /\ pgFocused' = TRUE
    /\ pgLast' = [handler |-> "input", key |-> "", before |-> pgActive]
    /\ pgEvents' = pgEvents + 1
    /\ UNCHANGED <<pgActive, pgLegend, pgPc>>

\* allBtn 'click' listener
LegendAllClick ==
    /\ pgPc = "listening"
    /\ pgEvents < MaxPageEvents
    /\ pgActive' = NoCategory
    /\ pgLegend' = {"All"}
    /\ pgDimmed' = applyFilters(pgValue, NoCategory)
    /\ pgLast' = [handler |-> "all", key |-> "", before |-> pgActive]
    /\ pgEvents' = pgEvents + 1
    /\ UNCHANGED <<pgValue, pgFocused, pgPc>>

\* item 'click' listener of the legend item of key
LegendItemClick(key) ==
    /\ pgPc = "listening"
    /\ pgEvents < MaxPageEvents
    /\ \E next \in {IF pgActive = key THEN NoCategory ELSE key} :
          /\ pgActive' = next
          /\ pgLegend' = IF next # NoCategory THEN {key} ELSE {"All"}
          /\ pgDimmed' = applyFilters(pgValue, next)
    /\ pgLast' = [handler |-> "legend", key |-> key, before |-> pgActive]
    /\ pgEvents' = pgEvents + 1
    /\ UNCHANGED <<pgValue, pgFocused, pgPc>>

\* document 'keydown' listener
PageKeyDown(key) ==
    /\ pgPc = "listening"
    /\ pgEvents < MaxPageEvents
    /\ IF key = "Escape"
       THEN /\ pgValue' = <<>>
            /\ pgFocused' = FALSE
            /\ pgActive' = NoCategory
            /\ pgLegend' = {"All"}
            /\ pgDimmed' = applyFilters(<<>>, NoCategory)
       ELSE /\ pgFocused' = IF key = "/" /\ ~pgFocused THEN TRUE ELSE pgFocused
            /\ UNCHANGED <<pgValue, pgActive, pgLegend, pgDimmed>>
    /\ pgLast' = [handler |-> "keydown", key |-> key, before |-> pgActive]
    /\ pgEvents' = pgEvents + 1
    /\ UNCHANGED pgPc

----------------------------------------------------------------------------
(* Specification of the configuration builder and formatter                *)

CfgIdle ==
    /\ cZ = 0
    /\ cConfig = <<>>
    /\ cText = <<>>
    /\ cPc = "off"

CfgStart ==
    /\ cZ \in 1..MaxZ
    /\ cConfig = <<>>
    /\ cText = <<>>
    /\ cPc = "start"

CfgGetConfiguration ==
    /\ cPc = "start"
    /\ cConfig' = getElectronConfiguration(cZ)
    /\ cPc' = "configured"
    /\ UNCHANGED <<cZ, cText>>
    /\ UNCHANGED <<heatVars, nucVars, bondVars, radVars, sampVars, bondCloudVars, sceneVars, frameVars, nodeVars, tipVars, pageVars>>

CfgToString ==
    /\ cPc = "configured"
    /\ cText' = configToString(cConfig)
    /\ cPc' = "formatted"
    /\ UNCHANGED <<cZ, cConfig>>
    /\ UNCHANGED <<heatVars, nucVars, bondVars, radVars, sampVars, bondCloudVars, sceneVars, frameVars, nodeVars, tipVars, pageVars>>

CfgNext == CfgGetConfiguration \/ CfgToString

CfgInit == CfgStart /\ HeatIdle /\ NucIdle /\ BondIdle /\ RadIdle /\ SampIdle /\ BcIdle /\ SceneIdle /\ FrameIdle /\ NodeIdle /\ TipIdle /\ PageIdle

SpecConfig == CfgInit /\ [][CfgNext]_vars

----------------------------------------------------------------------------
(* Specification of the heatmap colour ramp                                *)

HeatSpecInit == HeatInit /\ CfgIdle /\ NucIdle /\ BondIdle /\ RadIdle /\ SampIdle /\ BcIdle /\ SceneIdle /\ FrameIdle /\ NodeIdle /\ TipIdle /\ PageIdle

HeatNext == HeatCall /\ UNCHANGED <<cfgVars, nucVars, bondVars, radVars, sampVars, bondCloudVars, sceneVars, frameVars, nodeVars, tipVars, pageVars>>

SpecHeat == HeatSpecInit /\ [][HeatNext]_vars

----------------------------------------------------------------------------
(* Specification of the nucleus composer                                   *)

NucSpecInit == NucInit /\ CfgIdle /\ HeatIdle /\ BondIdle /\ RadIdle /\ SampIdle /\ BcIdle /\ SceneIdle /\ FrameIdle /\ NodeIdle /\ TipIdle /\ PageIdle

NucNext ==
    /\ (NucFill \/ NucShuffleStep \/ NucPlace)
    /\ UNCHANGED <<cfgVars, heatVars, bondVars, radVars, sampVars, bondCloudVars, sceneVars, frameVars, nodeVars, tipVars, pageVars>>

SpecNucleus == NucSpecInit /\ [][NucNext]_vars

----------------------------------------------------------------------------
(* Specification of the bond cylinder composer                             *)

BondSpecInit == BondInit /\ CfgIdle /\ HeatIdle /\ NucIdle /\ RadIdle /\ SampIdle /\ BcIdle /\ SceneIdle /\ FrameIdle /\ NodeIdle /\ TipIdle /\ PageIdle

BondNext == BondBuild /\ UNCHANGED <<cfgVars, heatVars, nucVars, radVars, sampVars, bondCloudVars, sceneVars, frameVars, nodeVars, tipVars, pageVars>>

SpecBond == BondSpecInit /\ [][BondNext]_vars

----------------------------------------------------------------------------
(* Specification of sampleRadius                                           *)

RadSpecInit == RadInit /\ CfgIdle /\ HeatIdle /\ NucIdle /\ BondIdle /\ SampIdle /\ BcIdle /\ SceneIdle /\ FrameIdle /\ NodeIdle /\ TipIdle /\ PageIdle

RadNext ==
    /\ (RadScan \/ RadAttempt \/ RadFallback)
    /\ UNCHANGED <<cfgVars, heatVars, nucVars, bondVars, sampVars, bondCloudVars, sceneVars, frameVars, nodeVars, tipVars, pageVars>>

SpecRadial == RadSpecInit /\ [][RadNext]_vars

----------------------------------------------------------------------------
(* Specification of sampleOrbitalPositions                                 *)

SampSpecInit == SampInit /\ CfgIdle /\ HeatIdle /\ NucIdle /\ BondIdle /\ RadIdle /\ BcIdle /\ SceneIdle /\ FrameIdle /\ NodeIdle /\ TipIdle /\ PageIdle

SampNext ==
    /\ (SampIterate \/ SampReturn)
    /\ UNCHANGED <<cfgVars, heatVars, nucVars, bondVars, radVars, bondCloudVars, sceneVars, frameVars, nodeVars, tipVars, pageVars>>

SpecSampler == SampSpecInit /\ [][SampNext]_vars

----------------------------------------------------------------------------
(* Specification of buildBondCloud                                          *)

BcSpecInit ==
    BcInit /\ CfgIdle /\ HeatIdle /\ NucIdle /\ BondIdle /\ RadIdle /\ SampIdle /\ SceneIdle /\ FrameIdle /\ NodeIdle /\ TipIdle /\ PageIdle

BcNext ==
    /\ (BcEnter \/ BcEmit \/ BcReturn)
    /\ UNCHANGED <<cfgVars, heatVars, nucVars, bondVars, radVars, sampVars, sceneVars, frameVars, nodeVars, tipVars, pageVars>>

SpecBondCloud == BcSpecInit /\ [][BcNext]_vars

----------------------------------------------------------------------------
(* Specification of the scene assembler and the UI handlers                *)

SceneSpecInit ==
    /\ SceneInit
    /\ CfgIdle /\ HeatIdle /\ NucIdle /\ BondIdle /\ RadIdle /\ SampIdle /\ BcIdle /\ FrameIdle /\ NodeIdle /\ TipIdle /\ PageIdle

SceneNext ==
    /\ \/ SceneBoot
       \/ ModeButton
       \/ MoleculeSelect
       \/ ElementSelect
       \/ CloudDensityInput
       \/ AnimationSpeedInput
       \/ NucleusSizeInput
       \/ ShowLabelsChange
       \/ GlowEffectsChange
       \/ ShowIndividualChange
       \/ ColorButton
       \/ ResetView
       \/ SubshellButton
       \/ AnimationFrame
    /\ UNCHANGED <<cfgVars, heatVars, nucVars, bondVars, radVars, sampVars,
                   bondCloudVars, frameVars, nodeVars, tipVars, pageVars>>

SpecScene == SceneSpecInit /\ [][SceneNext]_vars

----------------------------------------------------------------------------
(* Specification of the cloud buffers and the animation driver             *)

FrameSpecInit ==
    FrameInit /\ CfgIdle /\ HeatIdle /\ NucIdle /\ BondIdle /\ RadIdle /\ SampIdle
        /\ BcIdle /\ SceneIdle /\ NodeIdle /\ TipIdle /\ PageIdle

FrameNext ==
    /\ (FrameBuild \/ FrameSpeedInput \/ FrameAnimate)
    /\ UNCHANGED <<cfgVars, heatVars, nucVars, bondVars, radVars, sampVars,
                   bondCloudVars, sceneVars, nodeVars, tipVars, pageVars>>

SpecFrames == FrameSpecInit /\ [][FrameNext]_vars

----------------------------------------------------------------------------
(* Specification of the scan of the radial nodes                           *)

NodeSpecInit ==
    NodeInit /\ CfgIdle /\ HeatIdle /\ NucIdle /\ BondIdle /\ RadIdle /\ SampIdle
        /\ BcIdle /\ SceneIdle /\ FrameIdle /\ TipIdle /\ PageIdle

NodeNext ==
    /\ (NodeScanStep \/ NodeScanEnd)
    /\ UNCHANGED <<cfgVars, heatVars, nucVars, bondVars, radVars, sampVars,
                   bondCloudVars, sceneVars, frameVars, tipVars, pageVars>>

SpecNodes == NodeSpecInit /\ [][NodeNext]_vars

----------------------------------------------------------------------------
(* Specification of the info tooltip                                       *)

TipSpecInit ==
    TipInit /\ CfgIdle /\ HeatIdle /\ NucIdle /\ BondIdle /\ RadIdle /\ SampIdle
        /\ BcIdle /\ SceneIdle /\ FrameIdle /\ NodeIdle /\ PageIdle

TipNext ==
    /\ (TipClick \/ TipTimeout \/ TipTick)
    /\ UNCHANGED <<cfgVars, heatVars, nucVars, bondVars, radVars, sampVars,
                   bondCloudVars, sceneVars, frameVars, nodeVars, pageVars>>

SpecTooltip == TipSpecInit /\ [][TipNext]_vars

----------------------------------------------------------------------------
(* Specification of the periodic-table page                                *)

PageSpecInit ==
    PageInit /\ CfgIdle /\ HeatIdle /\ NucIdle /\ BondIdle /\ RadIdle /\ SampIdle
        /\ BcIdle /\ SceneIdle /\ FrameIdle /\ NodeIdle /\ TipIdle

PageNext ==
    /\ \/ SearchInput
       \/ LegendAllClick
       \/ \E key \in CategoryKeys : LegendItemClick(key)
       \/ \E key \in PageKeys : PageKeyDown(key)
    /\ UNCHANGED <<cfgVars, heatVars, nucVars, bondVars, radVars, sampVars,
                   bondCloudVars, sceneVars, frameVars, nodeVars, tipVars>>

SpecPage == PageSpecInit /\ [][PageNext]_vars

----------------------------------------------------------------------------
(* Claims on the configuration builder and formatter                       *)

RECURSIVE SumElectrons(_)
SumElectrons(config) ==
    IF Len(config) = 0 THEN 0
    ELSE config[1].electrons + SumElectrons(Tail(config))

CfgDone == cPc \in {"configured", "formatted"}

\* C1: for every Z in 1..36 the electron counts of the returned subshells sum
\* to exactly Z, and every returned subshell has
\* 1 <= electrons <= maxElectrons = 2(2l+1).
C1_SumAndCapacity ==
    CfgDone =>
        /\ SumElectrons(cConfig) = cZ
        /\ \A i \in 1..Len(cConfig) :
              /\ cConfig[i].maxElectrons = 2 * (2 * cConfig[i].l + 1)
              /\ 1 <= cConfig[i].electrons
              /\ cConfig[i].electrons <= cConfig[i].maxElectrons

\* Krypton: eight subshells, the 3d one holding 10 and the last, 4p, full.
C1_Witness ==
    /\ cPc = "configured"
    /\ cZ = 36
    /\ Len(cConfig) = 8
    /\ cConfig[7].electrons = 10
    /\ cConfig[8].electrons = 6

\* The order the claim spells out, as far as Z <= 36 reaches into it.
AufbauLabels1To36 ==
    << <<"1", "s">>, <<"2", "s">>, <<"2", "p">>, <<"3", "s">>, <<"3", "p">>,
       <<"4", "s">>, <<"3", "d">>, <<"4", "p">> >>

\* C2: the returned sequence is a prefix of the Aufbau order
\* 1s,2s,2p,3s,3p,4s,3d,4p,...; every subshell but the last returned is
\* filled to capacity; no subshell with zero electrons is returned.
C2_AufbauPrefix ==
    CfgDone =>
        /\ Len(cConfig) <= Len(AufbauPairs)
        /\ \A i \in 1..Len(cConfig) :
              /\ <<cConfig[i].n, cConfig[i].l>> = AufbauPairs[i]
              /\ cConfig[i].label = AUFBAU_ORDER[i].label
              /\ i < Len(cConfig) =>
                    cConfig[i].electrons = 2 * (2 * AufbauPairs[i][2] + 1)
              /\ cConfig[i].electrons # 0
        /\ Len(cConfig) <= Len(AufbauLabels1To36)
        /\ \A i \in 1..Len(cConfig) : cConfig[i].label = AufbauLabels1To36[i]

\* Scandium: 4s is filled before 3d, and the last subshell, 3d, is partial.
C2_Witness ==
    /\ cPc = "configured"
    /\ cZ = 21
    /\ Len(cConfig) = 7
    /\ cConfig[6].label = <<"4", "s">> /\ cConfig[6].electrons = 2
    /\ cConfig[7].label = <<"3", "d">> /\ cConfig[7].electrons = 1

\* The items of a text separated by single " " glyphs.
RECURSIVE SplitOnSpace(_, _, _)
SplitOnSpace(text, current, items) ==
    IF Len(text) = 0 THEN Append(items, current)
    ELSE IF text[1] = " " THEN SplitOnSpace(Tail(text), <<>>, Append(items, current))
    ELSE SplitOnSpace(Tail(text), Append(current, text[1]), items)

IsSuperscript(g) == \E d \in 0..9 : g = SuperscriptGlyph(d)

SuperscriptDigit(g) == CHOOSE d \in 0..9 : g = SuperscriptGlyph(d)

\* The number a run of superscript digit glyphs writes in decimal.
RECURSIVE SuperscriptValue(_, _)
SuperscriptValue(glyphs, acc) ==
    IF Len(glyphs) = 0 THEN acc
    ELSE SuperscriptValue(Tail(glyphs), 10 * acc + SuperscriptDigit(glyphs[1]))

CarbonText ==
    <<"1", "s", "^2", " ", "2", "s", "^2", " ", "2", "p", "^2">>

\* C3: configToString writes the subshell labels in sequence order, each
\* immediately followed by its electron count in superscript digit glyphs
\* (one glyph per decimal digit), items joined by a single space; Z = 6
\* gives "1s^2 2s^2 2p^2", which is also what rebuildAtom writes.
C3_ConfigText ==
    cPc = "formatted" =>
        LET items == SplitOnSpace(cText, <<>>, <<>>)
        IN /\ Len(items) = Len(cConfig)
           /\ \A i \in 1..Len(items) :
                 LET item == items[i]
                     sup == SubSeq(item, 3, Len(item))
                 IN /\ Len(item) >= 3
                    /\ SubSeq(item, 1, 2) = cConfig[i].label
                    /\ \A j \in 1..Len(sup) : IsSuperscript(sup[j])
                    /\ Len(sup) = (IF cConfig[i].electrons >= 10 THEN 2 ELSE 1)
                    /\ SuperscriptValue(sup, 0) = cConfig[i].electrons
           /\ cZ = 6 => /\ cText = CarbonText
                        /\ rebuildAtomConfigText(cZ) = CarbonText

\* Zinc: the 3d subshell holds 10 electrons, written with two glyphs.
C3_Witness ==
    /\ cPc = "formatted"
    /\ cZ = 30
    /\ \E k \in 1..(Len(cText) - 3) :
          SubSeq(cText, k, k + 3) = <<"3", "d", "^1", "^0">>

----------------------------------------------------------------------------
(* Claims on the orbital samplers                                          *)

\* C4: sampleOrbitalPositions(n, l, ml, count) returns exactly count
\* samples whatever the random draws: each finished iteration has pushed
\* one sample, the loop never runs past count, and the returned array has
\* length count, also when the radial and/or the angular rejection loop of
\* an iteration exhausted its attempts.
C4_ExactlyCountSamples ==
    /\ Len(sResults) = sI
    /\ sI <= sCount
    /\ sPc = "returned" => Len(sResults) = sCount

\* A returned call of MaxCount samples, one of them produced with both the
\* radial and the angular loop exhausted.
C4_Witness ==
    /\ sPc = "returned"
    /\ sCount = MaxCount
    /\ \E i \in 1..Len(sTaken) :
          sTaken[i].radialExhausted /\ sTaken[i].angularExhausted

\* Position of sampleRadius in its code: scan, rejection loop, returned.
RadialPhase == IF rPc = "returned" THEN 2 ELSE IF rPc = "loop" THEN 1 ELSE 0

RadialReturnedInRange ==
    /\ rAttempt <= MaxAttempts
    /\ rPc = "returned" =>
          /\ FLe(FZero, rResult.r)
          /\ FLe(FZero, rResult.radialDensity)
          /\ FLe(rResult.radialDensity, FOne)
          /\ rAttempt = MaxAttempts =>
                /\ rResult.r = FMul(FRat(1, 2), radialScale(rN))
                /\ rResult.radialDensity = FRat(3, 10)

RadialStepAdvances ==
    \/ RadialPhase' > RadialPhase
    \/ RadialPhase' = RadialPhase /\ rAttempt' > rAttempt

\* C5: for 0 <= l < n, sampleRadius(n, l) terminates after at most 500
\* rejection attempts past the grid scan (every step moves to a later
\* phase or counts one more attempt, and attempts never exceed 500) and
\* returns r >= 0 and radialDensity in [0, 1] for every sequence of draws;
\* on exhaustion it returns r = 0.5 * radialScale(n) and density 0.3.
C5_RadiusTerminatesInRange ==
    /\ []RadialReturnedInRange
    /\ [][RadialStepAdvances]_radVars

\* The outermost subshell of a shell, returned after 500 rejected attempts.
C5_Witness ==
    /\ rPc = "returned"
    /\ rAttempt = MaxAttempts
    /\ rL = rN - 1
    /\ rResult = RadialFallbackResult(rN)

\* The angular weight the sampler of subshell type l computes for a draw.
AngularValOf(l, ml, d) ==
    CASE l = 1 -> pAngularVal(ml, d)
      [] l = 2 -> dAngularVal(ml, d)
      [] OTHER -> fAngularVal(ml, d)

\* The draw whose direction is (x, y, z): cosT = y, sinT = sqrt(1 - y^2),
\* cos(phi) = x / sinT and sin(phi) = z / sinT (any phi on the Y axis).
DrawAlong(x, y, z, sinT) ==
    AngularDrawOf(y, sinT,
                  IF sinT = FZero THEN Angle(FOne, FZero)
                  ELSE Angle(FDiv(x, sinT), FDiv(z, sinT)))
DrawOfDirection(x, y, z) == DrawAlong(x, y, z, FSqrt(FSub(FOne, FSq(y))))

FallbackIsPeak(l, ml, o) ==
    /\ FLt(FZero, AngularValOf(l, ml, DrawOfDirection(o.x, o.y, o.z)))
    /\ \A d \in AngularDraws :
          FLe(AngularValOf(l, ml, d), AngularValOf(l, ml, DrawOfDirection(o.x, o.y, o.z)))

\* C6: when all angular draws of a p, d or f sampler are rejected, the
\* sample is placed along a direction where the (l, ml) angular weight is
\* positive (off every nodal plane) and at least the weight of any other
\* direction, and that direction is the same whatever is drawn afterwards.
C6_FallbackAtPeak ==
    \A i \in 1..Len(sTaken) :
       (sL \in 1..3 /\ sTaken[i].angularExhausted) =>
          /\ FallbackIsPeak(sL, sMl, sTaken[i])
          /\ \A o \in sOutcomes :
                o.angularExhausted =>
                   <<o.x, o.y, o.z>> = <<sTaken[i].x, sTaken[i].y, sTaken[i].z>>

----------------------------------------------------------------------------
(* Claims on the heatmap colour ramp                                       *)

Stop(r, g, b) == Colour(r * TDen, g * TDen, b * TDen)

ComponentDiff(c, d) == Colour(c.r - d.r, c.g - d.g, c.b - d.b)

\* C7: the input is clamped to [0,1]: every t <= 0 gives the deep-purple end
\* stop (0.15, 0, 0.3) and every t >= 1 gives white (1, 1, 1); at
\* t = 0.25, 0.5, 0.75 the ramp takes the stops (0.7,0,0.7), (1,0.45,0.1),
\* (1,0.9,0.05), and there the segment on the left arrives at the same
\* colour: its last grid step is as large as the one before it (no jump).
C7_ClampAndStops ==
    hCalls >= 1 =>
        /\ hT <= 0 => hColor = Stop(15, 0, 30)
        /\ hT >= TDen => hColor = Stop(100, 100, 100)
        /\ hT = HeatSteps => hColor = Stop(70, 0, 70)
        /\ hT = 2 * HeatSteps => hColor = Stop(100, 45, 10)
        /\ hT = 3 * HeatSteps => hColor = Stop(100, 90, 5)
        /\ (/\ hCalls = 2
            /\ hT \in {HeatSteps, 2 * HeatSteps, 3 * HeatSteps, TDen}
            /\ hPrevT = hT - 1)
           => ComponentDiff(hColor, hPrevColor)
                = ComponentDiff(hPrevColor, densityToHeatmap(hT - 2))

\* A call one grid step below t = 0.5 followed by a call exactly on it.
C7_Witness ==
    /\ hCalls = 2
    /\ hPrevT = 2 * HeatSteps - 1
    /\ hT = 2 * HeatSteps
    /\ hColor = Stop(100, 45, 10)

\* Relative luminance 0.2126 r + 0.7152 g + 0.0722 b, times 10000.
Luminance(c) == 2126 * c.r + 7152 * c.g + 722 * c.b

\* C8: for all t1 <= t2 in [0,1] the brightness (relative luminance) of the
\* colour for t1 is not greater than that of the colour for t2, within every
\* segment and across the segment boundaries.
C8_MonotonicBrightness ==
    (/\ hCalls = 2
     /\ hPrevT \in 0..TDen
     /\ hT \in 0..TDen
     /\ hPrevT <= hT)
    => Luminance(hPrevColor) <= Luminance(hColor)

\* Two calls in different segments, the second strictly brighter.
C8_Witness ==
    /\ hCalls = 2
    /\ hPrevT = 2 * HeatSteps - 1
    /\ hT = 2 * HeatSteps + 1
    /\ Luminance(hPrevColor) < Luminance(hColor)

----------------------------------------------------------------------------
(* Claims on the nucleus composer                                          *)

Nucleons == {k \in 1..Len(nGroup) : nGroup[k].userData.isNucleon}

NucleonsOfType(type) == {k \in Nucleons : nGroup[k].userData.type = type}

AtOrigin(position) == position.distCubed[1] = 0

\* C9: for every protons >= 1 and neutrons >= 0, buildNucleus makes exactly
\* protons + neutrons nucleon particles, `protons` of them typed proton and
\* `neutrons` typed neutron whatever the shuffle did; exactly one nucleon,
\* the one at index 0 after the shuffle, is at the exact origin and every
\* other one is at a strictly positive distance from it.
C9_NucleusParticles ==
    nPc = "done" =>
        /\ Cardinality(Nucleons) = nProtons + nNeutrons
        /\ Cardinality(NucleonsOfType("proton")) = nProtons
        /\ Cardinality(NucleonsOfType("neutron")) = nNeutrons
        /\ Cardinality({k \in Nucleons : AtOrigin(nGroup[k].position)}) = 1
        /\ AtOrigin(nGroup[1].position)
        /\ nGroup[1].userData.type = nParticles[1]
        /\ \A k \in Nucleons \ {1} :
              /\ nGroup[k].position.distCubed[1] > 0
              /\ nGroup[k].position.distCubed[2] > 0

\* Carbon, 6 and 6, after a shuffle that moved a neutron to index 0 and a
\* proton to the last index.
C9_Witness ==
    /\ nPc = "done"
    /\ nProtons = 6 /\ nNeutrons = 6
    /\ Cardinality(Nucleons) = 12
    /\ nGroup[1].userData.type = "neutron"
    /\ nGroup[12].userData.type = "proton"
    /\ nGlowEffects /\ Len(nGroup) = 13

----------------------------------------------------------------------------
(* Claims on the bond cylinder composer                                    *)

BondDir == SubVectors(bPosB, bPosA)

\* The offsets of the emitted pairs, in order.
PairOffsets == [k \in 1..(Len(bGroup) \div 2) |-> bGroup[2 * k - 1].offset]

PerpendicularOffset(o, len100) ==
    /\ o.len100 = len100
    /\ o.ray # ZeroVec
    /\ Dot(o.ray, BondDir) = 0

\* C10: between two distinct endpoints buildBondCylinder emits exactly
\* `order` pairs (bond cylinder + glow cylinder at the same place): order 1
\* one pair at zero offset; order 2 two pairs at +o and -o; order 3 three
\* pairs at 0, +o, -o; every non-zero offset is perpendicular to the bond
\* direction and non-degenerate for every bond direction, including bonds
\* parallel to the default up vector (0,1,0).
C10_BondOffsets ==
    (bPc = "done" /\ bPosA # bPosB) =>
        /\ Len(bGroup) = 2 * bOrder
        /\ \A k \in 1..bOrder :
              /\ bGroup[2 * k - 1].kind = "cylinder"
              /\ bGroup[2 * k - 1].userData.isBond
              /\ bGroup[2 * k].kind = "glow"
              /\ bGroup[2 * k].offset = bGroup[2 * k - 1].offset
              /\ bGroup[2 * k].mid2 = bGroup[2 * k - 1].mid2
        /\ bOrder = 1 => PairOffsets = <<ZeroOffset>>
        /\ bOrder = 2 =>
              /\ PerpendicularOffset(PairOffsets[1], 15)
              /\ PairOffsets[2] = NegateOffset(PairOffsets[1])
        /\ bOrder = 3 =>
              /\ PairOffsets[1] = ZeroOffset
              /\ PerpendicularOffset(PairOffsets[2], 20)
              /\ PairOffsets[3] = NegateOffset(PairOffsets[2])

\* A double bond running straight up: the reference vector is switched.
C10_Witness ==
    /\ bPc = "done"
    /\ bOrder = 2
    /\ BondDir = Vec(0, 2, 0)
    /\ Len(bGroup) = 4
    /\ PairOffsets[1].ray # ZeroVec

----------------------------------------------------------------------------
(* Claims on buildBondCloud                                                 *)

BcDir == SubVectors(bcPosB, bcPosA)

\* a . b for two unit vectors, as a rational
UnitDot(a, b) == Rational(Dot(a.ray, b.ray), a.den * b.den)

\* dirNorm, perp1 and perp2 of the point are pairwise orthogonal unit
\* vectors, so that the along-axis coordinate of the position is t and its
\* distance from the axis is the length of (rCos, rSin).
FrameOrthonormal(p) ==
    /\ UnitDot(p.dirNorm, p.dirNorm).num = UnitDot(p.dirNorm, p.dirNorm).den
    /\ UnitDot(p.perp1, p.perp1).num = UnitDot(p.perp1, p.perp1).den
    /\ UnitDot(p.perp2, p.perp2).num = UnitDot(p.perp2, p.perp2).den
    /\ UnitDot(p.dirNorm, p.perp1).num = 0
    /\ UnitDot(p.dirNorm, p.perp2).num = 0
    /\ UnitDot(p.perp1, p.perp2).num = 0
    /\ Primitive(BcDir).ray = p.dirNorm.ray

\* |t| <= 0.35 * length
AlongWithinMiddle(p) ==
    20 * bcDen * Abs(p.t.num) <= 7 * VectorLength(BcDir) * p.t.den

\* rCos^2 + rSin^2 <= (3 * (0.25 + 0.08 * order))^2
PerpendicularWithinThreeSpreads(p) ==
    p.rCos.num * p.rCos.num + p.rSin.num * p.rSin.num
        <= 9 * (25 + 8 * bcOrder) * (25 + 8 * bcOrder)
             * (p.rCos.den \div 100) * (p.rSin.den \div 100)

\* C11: buildBondCloud returns null exactly when the bond length is below
\* 0.001; otherwise every emitted point lies within 0.35 * length of the
\* midpoint along the axis and within 3 * spreadRadius of the axis,
\* spreadRadius = 0.25 + 0.08 * order, whatever the random draws.
C11_BondCloudBounds ==
    /\ bcPc = "null" => 1000 * VectorLength(BcDir) < bcDen
    /\ bcPc \in {"loop", "returned"} => 1000 * VectorLength(BcDir) >= bcDen
    /\ (bcPc \in {"loop", "returned"} /\ bcI > 0) =>
          /\ FrameOrthonormal(bcPoint)
          /\ AlongWithinMiddle(bcPoint)
          /\ PerpendicularWithinThreeSpreads(bcPoint)
    /\ bcPc = "returned" => bcI = BondCloudParticleCount(bcOrder, bcDensity)

\* A triple bond running straight up whose last point sits at the end of
\* the middle 70% and on the clamp of the radius.
C11_Witness ==
    /\ bcPc = "returned"
    /\ bcOrder = 3
    /\ bcI = 3
    /\ BcDir = Vec(0, 200, 0)
    /\ 20 * bcDen * Abs(bcPoint.t.num) = 7 * VectorLength(BcDir) * bcPoint.t.den
    /\ bcPoint.rCos.num = 6 * 49 * 3
    /\ bcPoint.rSin.num = 6 * 49 * 4

----------------------------------------------------------------------------
(* Claims on the scene assembler                                           *)

AtomScene == built.by = "rebuildAtom" /\ built.completed
MoleculeScene == built.by = "rebuildMolecule" /\ built.completed

\* The orbitals of a subshell l holding e electrons under the rule: ml from
\* -l upwards, ceil(e / 2) of them, two electrons each but for a last odd one.
ExpectedOrbitals(l, e) ==
    [i \in 1..((e + 1) \div 2) |->
        [ml |-> i - 1 - l, electronCount |-> IF 2 * i <= e THEN 2 ELSE 1]]

RECURSIVE SumOfCounts(_)
SumOfCounts(clouds) ==
    IF Len(clouds) = 0 THEN 0
    ELSE Head(clouds).electronCount + SumOfCounts(Tail(clouds))

\* The orbital clouds of subshell sub placed at position, in scene order
CloudsOf(sub, position) ==
    LET Of(obj) == /\ obj.kind = "cloud"
                   /\ obj.label = sub.label
                   /\ obj.position = position
    IN SelectSeq(atomGroup, Of)

CloudsFollowRule(sub, position) ==
    LET clouds == CloudsOf(sub, position)
        expected == ExpectedOrbitals(sub.l, sub.electrons)
    IN /\ Len(clouds) = Len(expected)
       /\ 2 * Len(clouds) \in {sub.electrons, sub.electrons + 1}
       /\ SumOfCounts(clouds) = sub.electrons
       /\ \A i \in 1..Len(clouds) :
             /\ clouds[i].n = sub.n
             /\ clouds[i].l = sub.l
             /\ clouds[i].ml = expected[i].ml
             /\ clouds[i].electronCount = expected[i].electronCount
             /\ clouds[i].electronCount \in {1, 2}

\* The boxes of the diagram hold the counts of the clouds, then nothing.
DiagramFollowsRule(boxes, sub) ==
    LET expected == ExpectedOrbitals(sub.l, sub.electrons)
    IN boxes = [m \in 1..(2 * sub.l + 1) |->
                  IF m <= Len(expected) THEN expected[m].electronCount ELSE 0]

\* The two loops on every subshell that can hold e electrons.
LoopsFollowRule ==
    \A l \in 0..3 : \A e \in 1..(2 * (2 * l + 1)) :
        /\ OrbitalLoop(0 - l, l, e, <<>>) =
              [i \in 1..((e + 1) \div 2) |->
                  [ml |-> ExpectedOrbitals(l, e)[i].ml,
                   eInThis |-> ExpectedOrbitals(l, e)[i].electronCount]]
        /\ DiagramFollowsRule(EnergyBoxes(0, 2 * l + 1, e, <<>>),
                              [l |-> l, electrons |-> e])

\* C12: in rebuildAtom (either setting of showIndividualOrbitals) and in
\* rebuildMolecule a subshell with e electrons gives one cloud per ml from
\* -l upwards with min(remaining, 2) electrons each: 1 or 2 per cloud,
\* ceil(e / 2) clouds, counts summing to e, fixed by (n, l, e); the energy
\* diagram draws the same counts per orbital box.
C12_ElectronDistribution ==
    /\ LoopsFollowRule
    /\ AtomScene =>
          LET config == getElectronConfiguration(built.from.elementZ)
          IN /\ Len(energyDiagram) = Len(config)
             /\ \A i \in 1..Len(config) :
                   /\ CloudsFollowRule(config[i], ZeroVec)
                   /\ DiagramFollowsRule(energyDiagram[i], config[i])
    /\ MoleculeScene =>
          LET atoms == MOLECULES[built.from.currentMolecule].atoms
          IN \A a \in 1..Len(atoms) :
                LET config == getElectronConfiguration(atoms[a].z)
                IN \A i \in 1..Len(config) :
                      CloudsFollowRule(config[i], atoms[a].pos)

\* Chromium with combined subshell clouds: 3d holds 4 electrons in 2 clouds.
C12_Witness ==
    /\ AtomScene
    /\ built.from.elementZ = 24
    /\ ~built.from.showIndividualOrbitals
    /\ Len(CloudsOf([label |-> SubshellLabel(3, 2)], ZeroVec)) = 2
    /\ Len(CloudsOf([label |-> SubshellLabel(2, 1)], ZeroVec)) = 3

\* The children of atomGroup of one kind, in scene order
ChildrenOfKind(kind) ==
    LET Of(obj) == obj.kind = kind
    IN SelectSeq(atomGroup, Of)

\* Every bond of the preset joins two different atoms of the preset that
\* lie at different places.
PresetBondsValid(mol) ==
    \A b \in 1..Len(mol.bonds) :
        /\ mol.bonds[b].from \in 0..(Len(mol.atoms) - 1)
        /\ mol.bonds[b].to \in 0..(Len(mol.atoms) - 1)
        /\ mol.atoms[mol.bonds[b].from + 1].pos # mol.atoms[mol.bonds[b].to + 1].pos

\* C13: for every preset rebuildMolecule adds one nucleus per preset atom,
\* one bond group per preset bond with its order and type, and one bond
\* cloud per bond (bonds have valid indices and positive length); H2 gives
\* 2 nuclei and 1 single covalent bond with its cloud, CH4 gives 5 nuclei
\* and 4 single covalent bonds.
C13_MoleculePresets ==
    /\ \A name \in DOMAIN MOLECULES : PresetBondsValid(MOLECULES[name])
    /\ MoleculeScene =>
          LET mol == MOLECULES[built.from.currentMolecule]
              nuclei == ChildrenOfKind("nucleus")
              bonds == ChildrenOfKind("bond")
          IN /\ Len(nuclei) = Len(mol.atoms)
             /\ \A a \in 1..Len(nuclei) :
                   /\ nuclei[a].z = mol.atoms[a].z
                   /\ nuclei[a].position = mol.atoms[a].pos
             /\ Len(bonds) = Len(mol.bonds)
             /\ \A b \in 1..Len(bonds) :
                   /\ bonds[b].order = mol.bonds[b].order
                   /\ bonds[b].type = mol.bonds[b].type
             /\ Len(ChildrenOfKind("bondCloud")) = Len(mol.bonds)
             /\ \A k \in 1..Len(atomGroup) :
                   atomGroup[k].kind = "bond" =>
                       /\ k < Len(atomGroup)
                       /\ atomGroup[k + 1].kind = "bondCloud"
                       /\ atomGroup[k + 1].particleCount > 0
             /\ built.from.currentMolecule = "H2" =>
                   /\ Len(nuclei) = 2
                   /\ Len(bonds) = 1
                   /\ bonds[1].order = 1 /\ bonds[1].type = "covalent"
             /\ built.from.currentMolecule = "CH4" =>
                   /\ Len(nuclei) = 5
                   /\ Len(bonds) = 4
                   /\ \A b \in 1..4 : bonds[b].order = 1 /\ bonds[b].type = "covalent"

\* Methane, assembled after a switch to molecule mode.
C13_Witness ==
    /\ MoleculeScene
    /\ built.from.currentMolecule = "CH4"
    /\ Len(ChildrenOfKind("nucleus")) = 5
    /\ Len(ChildrenOfKind("bondCloud")) = 4

\* C14: two rebuildAtom calls in a row from an unchanged state (same
\* elementZ) give the same orbital clouds in the same order, with equal
\* (n, l, ml, electronCount, label) tags and equal particle counts, whatever
\* the random draws of the two calls.
C14_RebuildAtomIdempotent ==
    (repeat.again /\ AtomScene) => CloudTags(atomGroup) = repeat.previous

\* Nitrogen rebuilt by the reset button with other draws than before.
C14_Witness ==
    /\ repeat.again
    /\ AtomScene
    /\ ~repeat.sameDraws
    /\ built.from.elementZ = 7
    /\ Len(repeat.previous) = 4
    /\ lastCall.handler = "reset-view"

\* C15: after any rebuild, in any sequence and across mode switches, every
\* object reachable from atomGroup was created by that rebuild: no object
\* (and so no geometry or material) of an earlier scene is still attached,
\* and the scene is the atom's or the molecule's, never both.
C15_OnlyTheNewScene ==
    built.by # "none" =>
        /\ \A k \in 1..Len(atomGroup) : atomGroup[k].id = <<sceneGen, k>>
        /\ built.by = "rebuildAtom" =>
              /\ Len(ChildrenOfKind("bond")) = 0
              /\ Len(ChildrenOfKind("bondCloud")) = 0
              /\ Len(ChildrenOfKind("nucleus")) <= 1

\* Water, assembled over the carbon atom of the initial scene.
C15_Witness ==
    /\ MoleculeScene
    /\ built.from.currentMolecule = "H2O"
    /\ lastCall.handler = "molecule-select"
    /\ Len(atomGroup) > 10


\* C16: a rebuild disposes every transient resource of the previous scene
\* (geometries, materials and the canvas texture of every label) before it
\* builds the new one, so that no resource of the previous scene is left
\* undisposed after any rebuild.
C16_PreviousSceneDisposed == leaked = {}


\* C17: no rebuild lets an exception propagate to its caller: a state whose
\* elementZ is not in the element catalog is skipped as a no-op build.
C17_NoExceptionPropagates == ~lastCall.threw


\* C18: after every UI handler the live scene is the one derived from the
\* final state; in particular every live nucleus has the scale derived from
\* state.nucleusScale: state.nucleusScale in an atom scene and
\* 0.7 * state.nucleusScale in a molecule scene (scales in hundredths,
\* state.nucleusScale in tenths).
C18_NucleusScaleFollowsState ==
    \A k \in 1..Len(atomGroup) :
        atomGroup[k].kind = "nucleus" =>
            atomGroup[k].scale =
                state.nucleusScale * (IF built.by = "rebuildMolecule" THEN 7 ELSE 10)


\* C19: after every rebuild the module-level handles nucleusGroup,
\* orbitalClouds and labelSprites refer only to children of the live
\* atomGroup, and animate and the nucleus-size handler touch only such
\* children.
LiveIds == {atomGroup[k].id : k \in 1..Len(atomGroup)}

C19_HandlesReferToLiveScene ==
    /\ nucleusGroup \in LiveIds \cup {NullRef}
    /\ \A k \in 1..Len(orbitalClouds) : orbitalClouds[k].points \in LiveIds
    /\ \A k \in 1..Len(labelSprites) : labelSprites[k] \in LiveIds
    /\ touched \subseteq LiveIds


\* C20: no rebuild and no animation frame writes to the visualization state:
\* after every step, `state` is the value the last UI handler assigned to it
\* (the initial value before any handler, the value a frame found).
C20_OnlyHandlersAssignState == state = assigned

C20_Witness ==
    /\ MoleculeScene
    /\ lastCall.handler = "animate"
    /\ touched # {}
    /\ state.mode = "molecule"
    /\ state # InitialState

----------------------------------------------------------------------------
(* Claims on the cloud buffers and the animation driver                    *)

\* The jitter term of buffer entry j at clock value t: a function of t, the
\* entry's index and the speed.
JitterAt(t, j, speed) ==
    LET axis == (j - 1) % 3
        i == (j - 1) - axis
    IN (3 * speed * (IF axis = 0 THEN MathSin(t * 230 + i * 1000)
                     ELSE IF axis = 1 THEN MathCos(t * 170 + i * 1000)
                     ELSE MathSin(t * 310 + (i + 1) * 1000))) \div 10

\* C21: animate never accumulates drift: it leaves the clouds and their
\* basePositions as they were built, and after a frame at clock value t every
\* entry of a position buffer is base * (1 + 0.04 * sin(phase)) plus the
\* jitter of (t, index, speed), whatever frames went before.
C21_NoDrift ==
    cbFrames > 0 =>
        /\ Len(cbClouds) = Len(cbBuilt)
        /\ \A k \in 1..Len(cbClouds) :
              /\ cbClouds[k].basePositions = cbBuilt[k]
              /\ Len(cbClouds[k].positions) = Len(cbBuilt[k])
              /\ \A j \in 1..Len(cbBuilt[k]) :
                    cbClouds[k].positions[j] =
                        cbBuilt[k][j]
                        + (cbBuilt[k][j] * 4
                             * MathSin(cbElapsed * cbFrameSpeed * 8
                                       + cbClouds[k].n * 1300 + cbClouds[k].l * 700))
                              \div 100000
                        + JitterAt(cbElapsed, j, cbFrameSpeed)

C21_Witness ==
    /\ cbFrames = 3
    /\ cbElapsed = 4
    /\ cbFrameSpeed = 25
    /\ Len(cbClouds) = 2
    /\ Len(cbClouds[1].positions) >= 6
    /\ cbClouds[1].positions # cbClouds[1].basePositions


\* C22: after every frame the opacity of every live cloud (of an atom scene,
\* of a molecule scene, of a bond) is base + 0.08 * sin(phase * 0.5) with
\* phase = elapsed * speed * 0.8 + n * 1.3 + l * 0.7 and base 0.7 if
\* state.highlightSubshell is 'all' or the cloud's label, else 0.12, whatever
\* opacity the build gave it; it lies in [0.04, 0.78].
C22_OpacityPulse ==
    cbFrames > 0 =>
        \A k \in 1..Len(cbClouds) :
            LET cloud == cbClouds[k]
                phase == cbElapsed * cbFrameSpeed * 8 + cloud.n * 1300 + cloud.l * 700
                base == IF cbState.highlightSubshell \in {<<"all">>, cloud.label}
                        THEN 70000 ELSE 12000
            IN /\ cloud.opacity = base + 8 * MathSin(phase \div 2)
               /\ cloud.opacity >= 4000
               /\ cloud.opacity <= 78000

C22_Witness ==
    /\ cbFrames = 2
    /\ cbMode = "molecule"
    /\ Len(cbClouds) = 3
    /\ cbClouds[1].label = cbState.highlightSubshell
    /\ cbClouds[1].opacity > 70000
    /\ cbClouds[3].label = <<"bond">>
    /\ cbClouds[3].opacity < 20000
    /\ cbClouds[3].opacity # 12000


\* count is Math.round(num / den): the integer nearest to num / den
NearestInteger(count, num, den) ==
    /\ 2 * den * count <= 2 * num + den
    /\ 2 * num + den < 2 * den * count + 2 * den

\* C23: an orbital cloud holds round(electronCount * 5000 * f) points, with
\* f = cloudDensity for a highlighted subshell (or highlight 'all'),
\* cloudDensity * 0.15 for another one in atom mode, cloudDensity * 0.4 in
\* molecule mode; a bond cloud holds round(order * 2000 * cloudDensity);
\* positions and basePositions have three entries per point and are equal
\* when built.
C23_ParticleCounts ==
    cbPc \in {"built", "frame"} =>
        \A k \in 1..Len(cbClouds) :
            LET cloud == cbClouds[k]
                percent == IF cbMode = "molecule" THEN 40
                           ELSE IF cbState.highlightSubshell \in {<<"all">>, cloud.label}
                                THEN 100 ELSE 15
            IN /\ IF cloud.label = <<"bond">>
                  THEN NearestInteger(cloud.particleCount,
                           cloud.electronCount * 2000 * cbState.cloudDensity,
                           DensityDen)
                  ELSE NearestInteger(cloud.particleCount,
                           cloud.electronCount * 5000 * cbState.cloudDensity * percent,
                           DensityDen * 100)
               /\ Len(cloud.positions) = 3 * cloud.particleCount
               /\ Len(cloud.basePositions) = 3 * cloud.particleCount
               /\ cbPc = "built" => cloud.positions = cloud.basePositions

C23_Witness ==
    /\ cbPc = "built"
    /\ cbMode = "atom"
    /\ cbState.cloudDensity = 6
    /\ Len(cbClouds) = 2
    /\ cbClouds[1].electronCount = 2
    /\ cbClouds[1].particleCount = 5
    /\ cbClouds[2].electronCount = 1
    /\ cbClouds[2].particleCount = 2
    /\ Len(cbClouds[1].positions) = 15

----------------------------------------------------------------------------
(* Claims on the radial nodes                                              *)

\* C24: for every (n, l) of the Aufbau table the radial shape has exactly
\* n - l - 1 nodes at rho > 0, all of them inside (0, rhoMax = 3n + 4): along
\* the scan Rnl changes sign n - l - 1 times, and at rhoMax it has the sign
\* (-1)^(n - l - 1) its leading term keeps from the last node on.
C24_RadialNodes ==
    /\ ndPc \in {"scan", "scanned"} => ndNodes <= ndN - ndL - 1
    /\ ndPc = "scanned" =>
          /\ ndNodes = ndN - ndL - 1
          /\ ndSign = IF (ndN - ndL - 1) % 2 = 0 THEN 1 ELSE 0 - 1

C24_Witness ==
    /\ ndPc = "scanned"
    /\ ndN = 7
    /\ ndL = 0
    /\ ndNodes = 6


\* C25: no non-finite value reaches a buffer of a bond cloud: for every bond,
\* a bond from a point to itself included, and every outcome of the draws,
\* every term of a coordinate written to the position and base buffers is
\* finite, as is the distance its colour is computed from; a bond shorter
\* than 0.001 gets no buffer at all.
C25_BondBuffersFinite ==
    /\ bcI > 0 =>
          /\ bcPoint.dirNorm.den # 0
          /\ bcPoint.perp1.den # 0
          /\ bcPoint.perp2.den # 0
          /\ IsFinite(bcPoint.t)
          /\ IsFinite(bcPoint.rCos)
          /\ IsFinite(bcPoint.rSin)
          /\ IsFinite(bcPoint.dist)
    /\ bcPc = "null" => bcI = 0 /\ bcPoint = NoPoint

C25_Witness ==
    /\ bcPc = "returned"
    /\ bcI = 3
    /\ bcDen = 10000
    /\ VectorLength(BcDir) = 10
    /\ bcPoint.dist.num = bcPoint.dist.den


\* C26: after any sequence of UI events the kind of the live scene equals
\* state.mode: the scene in atomGroup was assembled by rebuildAtom exactly
\* when state.mode is 'atom' and by rebuildMolecule exactly when it is
\* 'molecule'.
C26_SceneKindIsMode ==
    built.by # "none" =>
        /\ built.by = "rebuildAtom" <=> state.mode = "atom"
        /\ built.by = "rebuildMolecule" <=> state.mode = "molecule"


ConfigLabels(z) ==
    {getElectronConfiguration(z)[i].label : i \in 1..Len(getElectronConfiguration(z))}

\* C27: state.highlightSubshell is always 'all' or the label of a subshell
\* of the configuration of state.elementZ, so that an atom scene always has
\* a highlighted subshell: a cloud built at the full density.
C27_HighlightIsValid ==
    /\ state.highlightSubshell \in {<<"all">>} \cup ConfigLabels(state.elementZ)
    /\ AtomScene =>
          \E k \in 1..Len(atomGroup) :
              /\ atomGroup[k].kind = "cloud"
              /\ state.highlightSubshell \in {<<"all">>, atomGroup[k].label}

C27_Witness ==
    /\ AtomScene
    /\ lastCall.handler = "subshell-btn"
    /\ state.elementZ = 7
    /\ state.highlightSubshell = SubshellLabel(2, 1)
    /\ events = 2

----------------------------------------------------------------------------
(* Claims on the info tooltip                                              *)

\* C28: after a click that hits an inspectable object the tooltip stays
\* visible until 4000 ms after that click, unless a later click misses every
\* object: the hide timer of an earlier click never hides the tooltip shown
\* by a later one.
C28_TooltipStaysVisible ==
    (ttShownAt >= 0 /\ ~ttMissed /\ ttNow < ttShownAt + TooltipDelay) => ~ttHidden

----------------------------------------------------------------------------
(* Further claims on the scene assembler                                   *)

\* The scene rebuildAtom assembles from the current bindings and the state
\* st, with the draws seed.
AssembledAtom(st, seed) == rebuildAtom(Scene, st, 0, seed)

----------------------------------------------------------------------------
(* Claims on the periodic-table page                                       *)

\* The query of the filters: the text of the search box, trimmed and in
\* lower case
CurrentQuery == toLowerCase(trim(pgValue))

\* Tile i passes the search filter
PassesSearch(i) ==
    \/ CurrentQuery = <<>>
    \/ includes(toLowerCase(PageElements[i].symbol), CurrentQuery)
    \/ includes(toLowerCase(PageElements[i].name), CurrentQuery)
    \/ toString(PageElements[i].z) = CurrentQuery

\* Tile i passes the category filter
PassesCategory(i) ==
    pgActive = NoCategory \/ PageElements[i].category = pgActive

\* C30: after any sequence of search input, legend clicks and key presses a
\* tile is dimmed exactly when it fails the current filters: it is undimmed
\* exactly when (the query is empty, or its symbol or name contains the
\* query regardless of case, or its atomic number written in decimal is the
\* query) and (no category is active or its category is the active one);
\* clicking the active category again, clicking All, or pressing Escape
\* leaves no category active.
C30_DimmedIffFiltered ==
    /\ \A i \in 1..Len(PageElements) :
          ~pgDimmed[i] <=> (PassesSearch(i) /\ PassesCategory(i))
    /\ pgLast.handler = "all" => pgActive = NoCategory
    /\ (pgLast.handler = "keydown" /\ pgLast.key = "Escape") => pgActive = NoCategory
    /\ (pgLast.handler = "legend" /\ pgLast.key = pgLast.before)
          => pgActive = NoCategory

\* Helium is looked up as " he " while the noble gases are selected, after
\* alkali metal was selected and left: helium alone stays undimmed
C30_Witness ==
    /\ pgValue = <<" ", "h", "e", " ">>
    /\ pgActive = "noble-gas"
    /\ pgLast.handler = "input"
    /\ pgDimmed = [i \in 1..Len(PageElements) |-> i # 2]

====
